---- MODULE Spec2Model ----
(***************************************************************************)
(* Trust & safety case study: the hierarchical generator                   *)
(* (data_gen.generate_dataframe), the invariant validator                  *)
(* (quality_checks.run_checks) and the process-wide random stream          *)
(* (config.py) as a state machine.                                         *)
(*                                                                         *)
(* Numbers.  Counts are integers.  Probabilities and rate ranges are kept  *)
(* in percent (0.65 -> 65), the report rate in permille (0.009 -> 9).      *)
(* A float column of the table (rate, share) is a record                   *)
(*   [k |-> "num", v |-> n]   the value n / EpsInv (6 decimals, truncated) *)
(*   [k |-> "nan", v |-> 0]   missing (NaN)                                *)
(*   [k |-> "inf", v |-> s]   an infinity of sign s                        *)
(* median_response_time_hours is kept in tenths of an hour, dates as day   *)
(* numbers counted from 2025-03-01 (day 0).                                *)
(***************************************************************************)
EXTENDS Integers, Sequences, FiniteSets, TLC

VARIABLES
    config,      \* the configuration this process was started with
    pc,          \* position of the program
    day,         \* generate_dataframe: current day (index into days)
    ci,          \* generate_dataframe: current country (index into COUNTRIES)
    cell,        \* generate_dataframe: locals of the current (day, country) cell
    df,          \* the table: [cols |-> column names, data |-> rows]
    problems,    \* run_checks: the returned list of findings
    rng,         \* numpy's global random state
    first,       \* the table returned by the first invocation of this seed
    edits,       \* number of changes made to a table before it is validated
    out,         \* detect_anomalies, add_rolling: the returned table, or the
                 \* exception raised
    args,        \* detect_anomalies, add_rolling: the arguments of the latest call
    memo,        \* the arguments and the result of the first detector call, and
                 \* whether a call with other arguments followed it
    an,          \* dashboard, anomalies tab: the table of flagged rows shown
    gen          \* simulate_cases: the stream of default_rng(cfg.seed), as far
                 \* as it has been read

vars == <<config, pc, day, ci, cell, df, problems, rng, first, edits, out, args, memo, an, gen>>

(***************************************************************************)
(* Bounds of the model                                                     *)
(***************************************************************************)
\* longest date range of a multi-country run
MaxDays == 2
\* changes applied to a sound table before validation
MaxEdits == 1
MaxRows == 3

(***************************************************************************)
(* config.py                                                               *)
(***************************************************************************)
SEED == 42
ALL_COUNTRIES == <<"Singapore", "Indonesia", "Philippines", "Thailand", "Vietnam">>
\* SURGE_START = 2025-05-10, SURGE_END = 2025-05-19 as day numbers
SURGE_START == 70
SURGE_END == 79
\* RESPONSE_IMPROVE_PER_DAY = -0.02 hours/day, in hundredths of an hour
RESPONSE_IMPROVE_PER_DAY == -2
\* COUNTRY_ADJUSTMENTS[c]["report_mult"], permille
REPORT_MULT ==
    [Singapore |-> 950, Indonesia |-> 1050, Philippines |-> 1000,
     Thailand |-> 980, Vietnam |-> 1020]

(***************************************************************************)
(* data_gen.py: category / source / enforcement design                     *)
(***************************************************************************)
VIOLATION_CATEGORIES ==
    <<"spam", "harassment_hate", "nudity", "misinformation", "child_safety", "other">>
NCAT == Len(VIOLATION_CATEGORIES)
BASE_CAT_P == <<40, 15, 12, 18, 2, 13>>
MISINFO_EVENT_START == 122
MISINFO_EVENT_END == 131
SOURCE_MIX ==
    [spam            |-> <<20, 75, 5>>,
     harassment_hate |-> <<55, 25, 20>>,
     nudity          |-> <<30, 65, 5>>,
     misinformation  |-> <<65, 20, 15>>,
     child_safety    |-> <<25, 35, 40>>,
     other           |-> <<60, 30, 10>>]
ENF_MIX ==
    [spam            |-> <<60, 8, 2, 30>>,
     harassment_hate |-> <<70, 15, 10, 5>>,
     nudity          |-> <<80, 10, 5, 5>>,
     misinformation  |-> <<30, 20, 0, 50>>,
     child_safety    |-> <<85, 0, 15, 0>>,
     other           |-> <<50, 25, 5, 20>>]
ENF_RATE_BY_CAT ==
    [spam            |-> <<65, 85>>,
     harassment_hate |-> <<70, 90>>,
     nudity          |-> <<75, 95>>,
     misinformation  |-> <<45, 70>>,
     child_safety    |-> <<90, 99>>,
     other           |-> <<55, 75>>]
APPEAL_SUCCESS_BY_CAT ==
    [spam            |-> <<5, 12>>,
     harassment_hate |-> <<10, 25>>,
     nudity          |-> <<5, 10>>,
     misinformation  |-> <<18, 35>>,
     child_safety    |-> <<0, 2>>,
     other           |-> <<10, 20>>]
APPEAL_RATE_BY_CAT ==
    [spam            |-> <<3, 8>>,
     harassment_hate |-> <<6, 14>>,
     nudity          |-> <<4, 10>>,
     misinformation  |-> <<8, 18>>,
     child_safety    |-> <<1, 3>>,
     other           |-> <<5, 12>>]

(***************************************************************************)
(* Arithmetic helpers                                                      *)
(***************************************************************************)
Max(a, b) == IF a >= b THEN a ELSE b
Min(a, b) == IF a <= b THEN a ELSE b
\* np.clip(x, lo, hi)
Clip(x, lo, hi) == Max(lo, Min(x, hi))
\* int(n / d) for d > 0: Python's int() truncates toward zero
IntTrunc(n, d) == IF n >= 0 THEN n \div d ELSE -((-n) \div d)

RECURSIVE SeqSum(_)
SeqSum(s) == IF s = <<>> THEN 0 ELSE Head(s) + SeqSum(Tail(s))

\* VIOLATION_CATEGORIES.index(name)
RECURSIVE IndexFrom(_, _, _)
IndexFrom(s, x, i) == IF s[i] = x THEN i ELSE IndexFrom(s, x, i + 1)
IndexOf(s, x) == IndexFrom(s, x, 1)

\* the values a np.random.uniform(lo, hi) draw is taken from: both ends of
\* the range and its middle
UniformDraws(lo, hi) == {lo, (lo + hi) \div 2, hi}

\* |np.random.normal(0, 1)| is below 12.01 for numpy's legacy generator (polar
\* method over 53-bit uniforms); draws are taken in whole standard deviations
GAUSS_MAX == 12
NormalDraws == {-GAUSS_MAX, 0, GAUSS_MAX}

(***************************************************************************)
(* Float columns                                                           *)
(***************************************************************************)
\* run_checks' eps = 1e-6 is one unit of the fixed-point representation
EpsInv == 1000000
\* run_checks' share_tol = 0.02, in percent
ShareTolPct == 2
Num(n) == [k |-> "num", v |-> n]
NaN == [k |-> "nan", v |-> 0]
Inf(s) == [k |-> "inf", v |-> s]
IsNaN(x) == x.k = "nan"
\* pandas' n / d on a count column divided by a float denominator column
FloatDiv(n, d) ==
    IF IsNaN(d) THEN NaN
    ELSE IF d.v # 0 THEN Num((n * EpsInv) \div d.v)
    ELSE IF n = 0 THEN NaN
    ELSE Inf(IF n > 0 THEN 1 ELSE -1)
\* Series.replace(0, np.nan)
ReplaceZero(n) == IF n = 0 THEN NaN ELSE Num(n)

(***************************************************************************)
(* Configurations the generator is run with.  The tables of data_gen.py    *)
(* and config.py are the defaults; the date range, the countries with      *)
(* their base user scale, the category prior and the source mixes vary.    *)
(***************************************************************************)
InSurge(d) == SURGE_START <= d /\ d <= SURGE_END
InMisinfoEvent(d) == MISINFO_EVENT_START <= d /\ d <= MISINFO_EVENT_END

USER_ONLY == [c \in DOMAIN SOURCE_MIX |-> <<100, 0, 0>>]
OneHot(name) == [i \in 1..NCAT |-> IF VIOLATION_CATEGORIES[i] = name THEN 100 ELSE 0]

\* several countries with a tiny user base over a date range
ConfigGrid ==
    [COUNTRIES |-> <<"Singapore", "Indonesia">>,
     BASE_USERS |-> [Singapore |-> 0, Indonesia |-> 1],
     START_DATE |-> 0, END_DATE |-> MaxDays - 1,
     BASE_CAT_P |-> BASE_CAT_P, SOURCE_MIX |-> SOURCE_MIX]
\* one country, one day (ordinary, inside the surge, inside the misinformation
\* event), a few reports spread over the categories
ConfigSmall(start) ==
    [COUNTRIES |-> <<"Indonesia">>,
     BASE_USERS |-> [Indonesia |-> IF InSurge(start) THEN 1000 ELSE 2000],
     START_DATE |-> start, END_DATE |-> start,
     BASE_CAT_P |-> BASE_CAT_P, SOURCE_MIX |-> SOURCE_MIX]
\* one country with tens of reports, all in one category and from one source
ConfigDeep ==
    [COUNTRIES |-> <<"Singapore">>,
     BASE_USERS |-> [Singapore |-> 25000],
     START_DATE |-> 0, END_DATE |-> 0,
     BASE_CAT_P |-> OneHot("misinformation"), SOURCE_MIX |-> USER_ONLY]
\* one country, one day, up to three reports of one category from all sources
ConfigMix ==
    [COUNTRIES |-> <<"Singapore">>,
     BASE_USERS |-> [Singapore |-> 3000],
     START_DATE |-> 0, END_DATE |-> 0,
     BASE_CAT_P |-> OneHot("spam"), SOURCE_MIX |-> SOURCE_MIX]
\* up to three reports, all of the first category and from users
ConfigFirstOnly ==
    [COUNTRIES |-> <<"Singapore">>,
     BASE_USERS |-> [Singapore |-> 3000],
     START_DATE |-> 0, END_DATE |-> 0,
     BASE_CAT_P |-> OneHot("spam"), SOURCE_MIX |-> USER_ONLY]
\* up to three reports of child_safety, whose enforcement mix
\* (0.85, 0.00, 0.15, 0.00) ends with a class of probability 0
ConfigChild ==
    [COUNTRIES |-> <<"Singapore">>,
     BASE_USERS |-> [Singapore |-> 3000],
     START_DATE |-> 0, END_DATE |-> 0,
     BASE_CAT_P |-> OneHot("child_safety"), SOURCE_MIX |-> USER_ONLY]
\* degenerate configurations: a category prior of zeros, and a source mix of
\* zeros for the one category that has reports
ZEROS == [i \in 1..NCAT |-> 0]
ConfigZeroMix ==
    [COUNTRIES |-> <<"Singapore">>,
     BASE_USERS |-> [Singapore |-> 3000],
     START_DATE |-> 0, END_DATE |-> 0,
     BASE_CAT_P |-> ZEROS, SOURCE_MIX |-> SOURCE_MIX]
ConfigZeroSource ==
    [COUNTRIES |-> <<"Singapore">>,
     BASE_USERS |-> [Singapore |-> 3000],
     START_DATE |-> 0, END_DATE |-> 0,
     BASE_CAT_P |-> OneHot("spam"),
     SOURCE_MIX |-> [SOURCE_MIX EXCEPT !.spam = <<0, 0, 0>>]]
Configs ==
    {ConfigGrid, ConfigDeep, ConfigMix,
     ConfigFirstOnly, ConfigChild, ConfigZeroMix, ConfigZeroSource}
    \cup {ConfigSmall(s) : s \in {0, SURGE_START, MISINFO_EVENT_START}}

(***************************************************************************)
(* data_gen.py: helpers                                                    *)
(***************************************************************************)
\* faulty variant: only the surge boost is applied
AdjustCategoryMixSurgeOnly(base, d) ==
    LET p == [i \in 1..NCAT |->
                base[i] * (IF i = IndexOf(VIOLATION_CATEGORIES, "spam") /\ InSurge(d)
                           THEN 135 ELSE 100)]
    IN  [w |-> p, s |-> SeqSum(p)]

\* _adjust_category_mix(day): the boosted weights (in 1/10000) and their sum;
\* the returned probability of category i is w[i] / s
AdjustCategoryMix(base, d) ==
    LET p == [i \in 1..NCAT |->
                base[i] * (IF i = IndexOf(VIOLATION_CATEGORIES, "spam") /\ InSurge(d)
                           THEN 135 ELSE 100)]
        q == [i \in 1..NCAT |->
                IF i = IndexOf(VIOLATION_CATEGORIES, "misinformation") /\ InMisinfoEvent(d)
                THEN (p[i] * 150) \div 100 ELSE p[i]]
    IN  [w |-> q, s |-> SeqSum(q)]

\* faulty variant: a class of probability 0 can receive an item
BinomialDrawsZeroClassDrawn(n, none, all, rounded) ==
    IF n = 0 THEN {0}
    ELSE IF none THEN {0, 1}
    ELSE IF all THEN (IF rounded THEN {n - 1, n} ELSE {n})
    ELSE 0..n
\* the outcomes of the binomial(n, pvals[j] / Sum) draw np.random.multinomial
\* makes for a class that is not the last one.  none: the class has
\* probability 0; all: the class holds all the mass that is left; rounded:
\* Sum is the result of a float subtraction, so that the quotient of a class
\* holding all the mass may be just below 1.0 (0.15 / (1.0 - 0.85) is
\* 0.9999999999999998) and the draw may fall one short of n
BinomialDraws(n, none, all, rounded) ==
    IF n = 0 \/ none THEN {0}
    ELSE IF all THEN (IF rounded THEN {n - 1, n} ELSE {n})
    ELSE 0..n

\* np.random.multinomial from class j on, with left items still to place:
\* every class but the last gets a binomial draw, the last class gets
\* whatever is left, whatever its probability
RECURSIVE PlacementsFrom(_, _, _)
PlacementsFrom(left, probs, j) ==
    IF j = Len(probs) THEN {<<left>>}
    ELSE LET before == SeqSum(SubSeq(probs, 1, j - 1))
             after == SeqSum(SubSeq(probs, j + 1, Len(probs)))
         IN  UNION { { <<x>> \o r : r \in PlacementsFrom(left - x, probs, j + 1) } :
                     x \in BinomialDraws(left, probs[j] = 0, after = 0, before > 0) }
\* the outcomes of np.random.multinomial(total, probs / probs.sum()) for a
\* vector with a positive sum
Placements(total, probs) == PlacementsFrom(total, probs, 1)
\* probs / probs.sum() of a zero-sum vector is NaN in every class, and
\* np.random.multinomial raises ValueError for pvals that contain NaN
SplitRaises(total, probs) == total > 0 /\ SeqSum(probs) = 0

\* faulty variant: each class gets its truncated expected count
MultinomialSplitTruncated(total, probs) ==
    { [i \in 1..Len(probs) |-> IntTrunc(Max(total, 0) * probs[i], Max(SeqSum(probs), 1))] }
\* faulty variant: the degenerate guard also swallows a total of 1
MultinomialSplitGuardOne(total, probs) ==
    IF total <= 1 THEN { [i \in 1..Len(probs) |-> 0] }
    ELSE Placements(total, probs)
\* _multinomial_split(total, probs)
MultinomialSplit(total, probs) ==
    IF total <= 0 THEN { [i \in 1..Len(probs) |-> 0] }
    ELSE IF SeqSum(probs) = 0 THEN {}
    ELSE Placements(total, probs)

\* days = pd.date_range(START_DATE, END_DATE, freq="D")
\* faulty variant: the range stops before END_DATE
DaysExclusive(cfg) == [i \in 1..Max(0, cfg.END_DATE - cfg.START_DATE) |-> cfg.START_DATE + i - 1]
Days(cfg) == [i \in 1..Max(0, cfg.END_DATE - cfg.START_DATE + 1) |-> cfg.START_DATE + i - 1]

\* faulty variant: the baseline keeps falling below 6 hours
BaseRespNoFloor(cfg, d) == 2400 + RESPONSE_IMPROVE_PER_DAY * (d - Days(cfg)[1])
\* base_resp for a day, in hundredths of an hour
BaseResp(cfg, d) == Max(600, 2400 + RESPONSE_IMPROVE_PER_DAY * (d - Days(cfg)[1]))

\* round(x, 1) of a value given in hundredths, to tenths (ties to even)
RoundTenths(x) ==
    LET q == x \div 10
        r == x % 10
    IN  IF r < 5 THEN q
        ELSE IF r > 5 THEN q + 1
        ELSE IF q % 2 = 0 THEN q ELSE q + 1

(***************************************************************************)
(* The random stream.  np.random.seed(SEED) runs once, when config.py is   *)
(* imported; every draw of generate_dataframe advances the one global      *)
(* state.  rng.pos counts the draw steps consumed since seeding and        *)
(* rng.start is the position at which the running invocation began.  The   *)
(* stream a seed produces is fixed but unknown: rng.tape holds the part of *)
(* it that an invocation starting at position 0 has read so far, and a     *)
(* later read of the same position returns the same values.  rng.traced    *)
(* tells whether the stream is recorded (it is when the process is started *)
(* a second time).                                                         *)
(***************************************************************************)
Seeded(traced, tape) == [seed |-> SEED, pos |-> 0, start |-> 0, tape |-> tape, traced |-> traced]
Replaying == rng.start = 0 /\ rng.pos < Len(rng.tape)
\* one draw step with outcome d
Consume(d) ==
    /\ Replaying => d = rng.tape[rng.pos + 1]
    /\ rng' = [rng EXCEPT !.pos = @ + 1,
                          !.tape = IF rng.traced /\ rng.start = 0 /\ ~Replaying
                                   THEN Append(@, d) ELSE @]

(***************************************************************************)
(* data_gen.generate_dataframe                                             *)
(***************************************************************************)
RAW_COLUMNS ==
    <<"date", "country", "active_users", "content_created", "reports", "enforcements",
      "appeals", "successful_appeals", "median_response_time_hours",
      "reports_spam", "reports_harassment_hate", "reports_nudity", "reports_misinformation",
      "reports_child_safety", "reports_other",
      "reports_user", "reports_ai", "reports_trusted",
      "enf_removed", "enf_warning", "enf_suspension", "enf_downrank">>
KPI_COLUMNS == <<"report_rate", "enforcement_rate", "appeal_rate", "appeal_success_rate">>
SHARE_COLUMNS ==
    <<"share_spam", "share_harassment_hate", "share_nudity", "share_misinformation",
      "share_child_safety", "share_other", "share_user", "share_ai", "share_trusted">>

NoCell == [k |-> 0]
EmptyTable == [cols |-> <<>>, data |-> <<>>]
\* detect_anomalies has not been called
NoOutput == [status |-> "none", cols |-> <<>>, data |-> <<>>]
NoArgs == [window |-> 0, threshold |-> 0]
NoMemo == [args |-> NoArgs, out |-> NoOutput, others |-> FALSE]
\* no invocation has returned yet
NoFirst == [cols |-> <<>>, data |-> <<>>, start |-> 0, done |-> FALSE]
Country == config.COUNTRIES[ci]
Today == Days(config)[day]

\* generate_dataframe, lines 87-90: the date range and the empty row list
GenStart ==
    /\ pc = "ready"
    /\ rng' = [rng EXCEPT !.start = rng.pos]
    /\ df' = [cols |-> RAW_COLUMNS, data |-> <<>>]
    /\ day' = 1
    /\ ci' = 1
    /\ pc' = IF Len(Days(config)) = 0 \/ Len(config.COUNTRIES) = 0 THEN "derive" ELSE "cell"
    /\ UNCHANGED <<out, args, memo, config, cell, problems, first, edits, an, gen>>

\* an exception leaves generate_dataframe: the rows collected so far are
\* dropped and no table is returned
Failed ==
    /\ pc' = "failed"
    /\ cell' = NoCell
    /\ df' = EmptyTable

\* reports_total of a cell, lines 103-108
ReportsTotal(content_created, report_rate, c, d) ==
    Max(IntTrunc(content_created * report_rate * REPORT_MULT[c] * (IF InSurge(d) THEN 18 ELSE 10),
                 10000000), 0)

\* lines 99-119: users, content, reports, the category split, the zeroed totals
CellStart ==
    /\ pc = "cell"
    /\ \E z \in NormalDraws, cf \in UniformDraws(2, 5), rr \in UniformDraws(9, 15) :
        LET users == config.BASE_USERS[Country] + IntTrunc(z * config.BASE_USERS[Country] * 5, 100)
            content_created == IntTrunc(users * cf, 100)
            reports_total == ReportsTotal(content_created, rr, Country, Today)
            cat_p == AdjustCategoryMix(config.BASE_CAT_P, Today)
        IN  IF SplitRaises(reports_total, cat_p.w)
            THEN /\ Consume(<<z, cf, rr>>)
                 /\ Failed
            ELSE \E cat_counts \in MultinomialSplit(reports_total, cat_p.w) :
              /\ Consume(<<z, cf, rr>> \o cat_counts)
              /\ cell' = [k |-> 1, users |-> users, content_created |-> content_created,
                          reports_total |-> reports_total, cat_counts |-> cat_counts,
                          reports_user |-> 0, reports_ai |-> 0, reports_trusted |-> 0,
                          enf_removed |-> 0, enf_warning |-> 0, enf_suspension |-> 0,
                          enf_downrank |-> 0, enforcements_total |-> 0,
                          appeals_total |-> 0, successful_appeals_total |-> 0]
              /\ pc' = "cat"
              /\ df' = df
    /\ UNCHANGED <<out, args, memo, config, day, ci, problems, first, edits, an, gen>>

\* lines 122-123: a category without reports is skipped
CatSkip ==
    /\ pc = "cat"
    /\ cell.k <= NCAT
    /\ cell.cat_counts[cell.k] = 0
    /\ cell' = [cell EXCEPT !.k = @ + 1]
    /\ UNCHANGED <<out, args, memo, config, pc, day, ci, df, problems, rng, first, edits, an, gen>>

\* enfs = int(count * enf_rate), line 134
Enforced(count, enf_rate) == IntTrunc(count * enf_rate, 100)
\* faulty variant: at least one appeal per category
AppealedAtLeastOne(enfs, appeal_rate) == Max(1, IntTrunc(enfs * appeal_rate, 100))
\* appeals = int(enfs * appeal_rate), line 146
Appealed(enfs, appeal_rate) == IntTrunc(enfs * appeal_rate, 100)
\* lines 149-153: src_adj as a fraction over 100 * sum(src_counts)
SrcAdj(src_counts) ==
    LET n == SeqSum(src_counts)
    IN  IF n > 0
        THEN [num |-> Clip(100 * n + 15 * src_counts[1] - 10 * src_counts[3], 50 * n, 130 * n),
              den |-> 100 * n]
        ELSE [num |-> 100, den |-> 100]
\* lines 155-157: succ = int(appeals * clip(draw * src_adj, 0, 1))
Succeeded(appeals, succ_draw, adj) ==
    LET num == Clip(succ_draw * adj.num, 0, 100 * adj.den)
    IN  IntTrunc(appeals * num, 100 * adj.den)

\* faulty variant: the source counts of a category replace the totals
AccumulateOverwrite(c, src_counts, enfs, e_counts, appeals, succ) ==
    [c EXCEPT
        !.k = @ + 1,
        !.reports_user = src_counts[1],
        !.reports_ai = src_counts[2],
        !.reports_trusted = src_counts[3],
        !.enforcements_total = @ + enfs,
        !.enf_removed = @ + e_counts[1],
        !.enf_warning = @ + e_counts[2],
        !.enf_suspension = @ + e_counts[3],
        !.enf_downrank = @ + e_counts[4],
        !.appeals_total = @ + appeals,
        !.successful_appeals_total = @ + succ]
\* lines 128-130, 135, 139-142, 159-160: the results of one category are added
\* to the totals of the cell
Accumulate(c, src_counts, enfs, e_counts, appeals, succ) ==
    [c EXCEPT
        !.k = @ + 1,
        !.reports_user = @ + src_counts[1],
        !.reports_ai = @ + src_counts[2],
        !.reports_trusted = @ + src_counts[3],
        !.enforcements_total = @ + enfs,
        !.enf_removed = @ + e_counts[1],
        !.enf_warning = @ + e_counts[2],
        !.enf_suspension = @ + e_counts[3],
        !.enf_downrank = @ + e_counts[4],
        !.appeals_total = @ + appeals,
        !.successful_appeals_total = @ + succ]

\* lines 125-160: one category with reports
CatStep ==
    /\ pc = "cat"
    /\ cell.k <= NCAT
    /\ cell.cat_counts[cell.k] # 0
    /\ LET cat == VIOLATION_CATEGORIES[cell.k]
           count == cell.cat_counts[cell.k]
       IN  IF SplitRaises(count, config.SOURCE_MIX[cat])
           THEN /\ rng' = rng
                /\ Failed
           ELSE
           \E src_counts \in MultinomialSplit(count, config.SOURCE_MIX[cat]),
              enf_rate \in UniformDraws(ENF_RATE_BY_CAT[cat][1], ENF_RATE_BY_CAT[cat][2]),
              appeal_rate \in UniformDraws(APPEAL_RATE_BY_CAT[cat][1], APPEAL_RATE_BY_CAT[cat][2]),
              succ_draw \in UniformDraws(APPEAL_SUCCESS_BY_CAT[cat][1], APPEAL_SUCCESS_BY_CAT[cat][2]) :
             LET enfs == Enforced(count, enf_rate)
                 appeals == Appealed(enfs, appeal_rate)
                 succ == Succeeded(appeals, succ_draw, SrcAdj(src_counts))
             IN  \E e_counts \in MultinomialSplit(enfs, ENF_MIX[cat]) :
                   /\ Consume(src_counts \o <<enf_rate>> \o e_counts \o <<appeal_rate, succ_draw>>)
                   /\ cell' = Accumulate(cell, src_counts, enfs, e_counts, appeals, succ)
                   /\ pc' = pc
                   /\ df' = df
    /\ UNCHANGED <<out, args, memo, config, day, ci, problems, first, edits, an, gen>>

\* lines 163-164: response_time in tenths of an hour, from a draw in hundredths
ResponseTime(draw) == Clip(RoundTenths(draw), 60, 360)

\* lines 166-176: the row of the finished cell
Row(c, d, response_time) ==
    [date |-> d, country |-> c,
     active_users |-> cell.users, content_created |-> cell.content_created,
     reports |-> cell.reports_total, enforcements |-> cell.enforcements_total,
     appeals |-> cell.appeals_total, successful_appeals |-> cell.successful_appeals_total,
     median_response_time_hours |-> response_time,
     reports_spam |-> cell.cat_counts[1], reports_harassment_hate |-> cell.cat_counts[2],
     reports_nudity |-> cell.cat_counts[3], reports_misinformation |-> cell.cat_counts[4],
     reports_child_safety |-> cell.cat_counts[5], reports_other |-> cell.cat_counts[6],
     reports_user |-> cell.reports_user, reports_ai |-> cell.reports_ai,
     reports_trusted |-> cell.reports_trusted,
     enf_removed |-> cell.enf_removed, enf_warning |-> cell.enf_warning,
     enf_suspension |-> cell.enf_suspension, enf_downrank |-> cell.enf_downrank]

\* lines 162-176 and the loop headers of lines 92 and 98: the response time is
\* drawn, the row appended, and the next country or day entered
CellEnd ==
    /\ pc = "cat"
    /\ cell.k > NCAT
    /\ \E draw \in UniformDraws(BaseResp(config, Today) - 400, BaseResp(config, Today) + 400) :
         /\ Consume(<<draw>>)
         /\ df' = [df EXCEPT !.data = Append(@, Row(Country, Today, ResponseTime(draw)))]
    /\ cell' = NoCell
    /\ IF ci < Len(config.COUNTRIES)
          THEN ci' = ci + 1 /\ day' = day /\ pc' = "cell"
          ELSE IF day < Len(Days(config))
               THEN ci' = 1 /\ day' = day + 1 /\ pc' = "cell"
               ELSE ci' = ci /\ day' = day /\ pc' = "derive"
    /\ UNCHANGED <<out, args, memo, config, problems, first, edits, an, gen>>

\* the derived columns of a row, all set to x
AllDerived(x) ==
    [c \in {"report_rate", "enforcement_rate", "appeal_rate", "appeal_success_rate",
            "share_spam", "share_harassment_hate", "share_nudity", "share_misinformation",
            "share_child_safety", "share_other", "share_user", "share_ai", "share_trusted"}
       |-> x]
\* faulty variant: missing values are filled with 0
DerivedFillZero(r) ==
    IF r.reports = 0 THEN AllDerived(Num(0))
    ELSE [AllDerived(NaN) EXCEPT
            !.report_rate = FloatDiv(r.reports, Num(r.content_created)),
            !.enforcement_rate = FloatDiv(r.enforcements, Num(r.reports)),
            !.appeal_rate = IF r.enforcements = 0 THEN Num(0) ELSE FloatDiv(r.appeals, Num(r.enforcements)),
            !.appeal_success_rate = IF r.appeals = 0 THEN Num(0) ELSE FloatDiv(r.successful_appeals, Num(r.appeals)),
            !.share_spam = FloatDiv(r.reports_spam, Num(r.reports)),
            !.share_harassment_hate = FloatDiv(r.reports_harassment_hate, Num(r.reports)),
            !.share_nudity = FloatDiv(r.reports_nudity, Num(r.reports)),
            !.share_misinformation = FloatDiv(r.reports_misinformation, Num(r.reports)),
            !.share_child_safety = FloatDiv(r.reports_child_safety, Num(r.reports)),
            !.share_other = FloatDiv(r.reports_other, Num(r.reports)),
            !.share_user = FloatDiv(r.reports_user, Num(r.reports)),
            !.share_ai = FloatDiv(r.reports_ai, Num(r.reports)),
            !.share_trusted = FloatDiv(r.reports_trusted, Num(r.reports))]
\* faulty variant: the enforcement rate is computed upside down
DerivedInverted(r) ==
    [DerivedFillZero(r) EXCEPT
        !.report_rate = FloatDiv(r.reports, Num(r.content_created)),
        !.enforcement_rate = FloatDiv(r.reports, ReplaceZero(r.enforcements)),
        !.appeal_rate = FloatDiv(r.appeals, ReplaceZero(r.enforcements)),
        !.appeal_success_rate = FloatDiv(r.successful_appeals, ReplaceZero(r.appeals)),
        !.share_spam = FloatDiv(r.reports_spam, ReplaceZero(r.reports)),
        !.share_harassment_hate = FloatDiv(r.reports_harassment_hate, ReplaceZero(r.reports)),
        !.share_nudity = FloatDiv(r.reports_nudity, ReplaceZero(r.reports)),
        !.share_misinformation = FloatDiv(r.reports_misinformation, ReplaceZero(r.reports)),
        !.share_child_safety = FloatDiv(r.reports_child_safety, ReplaceZero(r.reports)),
        !.share_other = FloatDiv(r.reports_other, ReplaceZero(r.reports)),
        !.share_user = FloatDiv(r.reports_user, ReplaceZero(r.reports)),
        !.share_ai = FloatDiv(r.reports_ai, ReplaceZero(r.reports)),
        !.share_trusted = FloatDiv(r.reports_trusted, ReplaceZero(r.reports))]
\* faulty variant: a rate over a zero denominator is infinite
DerivedInfOnZero(r) ==
    [DerivedInverted(r) EXCEPT
        !.enforcement_rate = IF r.reports = 0 THEN Inf(1)
                             ELSE FloatDiv(r.enforcements, Num(r.reports))]
\* faulty variant: the source shares are taken of the enforcements
DerivedShareOfEnforced(r) ==
    [DerivedInverted(r) EXCEPT
        !.enforcement_rate = FloatDiv(r.enforcements, ReplaceZero(r.reports)),
        !.share_user = FloatDiv(r.reports_user, ReplaceZero(r.enforcements)),
        !.share_ai = FloatDiv(r.reports_ai, ReplaceZero(r.enforcements)),
        !.share_trusted = FloatDiv(r.reports_trusted, ReplaceZero(r.enforcements))]
\* lines 187-198: the derived rate and share columns of one row
Derived(r) ==
    LET total_reports == ReplaceZero(r.reports)
    IN  [report_rate |-> FloatDiv(r.reports, Num(r.content_created)),
         enforcement_rate |-> FloatDiv(r.enforcements, ReplaceZero(r.reports)),
         appeal_rate |-> FloatDiv(r.appeals, ReplaceZero(r.enforcements)),
         appeal_success_rate |-> FloatDiv(r.successful_appeals, ReplaceZero(r.appeals)),
         share_spam |-> FloatDiv(r.reports_spam, total_reports),
         share_harassment_hate |-> FloatDiv(r.reports_harassment_hate, total_reports),
         share_nudity |-> FloatDiv(r.reports_nudity, total_reports),
         share_misinformation |-> FloatDiv(r.reports_misinformation, total_reports),
         share_child_safety |-> FloatDiv(r.reports_child_safety, total_reports),
         share_other |-> FloatDiv(r.reports_other, total_reports),
         share_user |-> FloatDiv(r.reports_user, total_reports),
         share_ai |-> FloatDiv(r.reports_ai, total_reports),
         share_trusted |-> FloatDiv(r.reports_trusted, total_reports)]

\* lines 178-200: the table with its derived columns is returned
Derive ==
    /\ pc = "derive"
    /\ df' = [cols |-> df.cols \o KPI_COLUMNS \o SHARE_COLUMNS,
              data |-> [i \in 1..Len(df.data) |-> df.data[i] @@ Derived(df.data[i])]]
    /\ pc' = "generated"
    /\ UNCHANGED <<out, args, memo, config, day, ci, cell, problems, rng, first, edits, an, gen>>

(***************************************************************************)
(* quality_checks.run_checks                                               *)
(***************************************************************************)
REQUIRED == RAW_COLUMNS \o KPI_COLUMNS \o SHARE_COLUMNS
COUNT_COLS_CORE ==
    <<"active_users", "content_created", "reports", "enforcements", "appeals",
      "successful_appeals">>
COUNT_COLS_CAT ==
    <<"reports_spam", "reports_harassment_hate", "reports_nudity", "reports_misinformation",
      "reports_child_safety", "reports_other">>
COUNT_COLS_SRC == <<"reports_user", "reports_ai", "reports_trusted">>
COUNT_COLS_ENF == <<"enf_removed", "enf_warning", "enf_suspension", "enf_downrank">>
NONNEG_COLS == COUNT_COLS_CORE \o COUNT_COLS_CAT \o COUNT_COLS_SRC \o COUNT_COLS_ENF
SHARE_COLS_CAT ==
    <<"share_spam", "share_harassment_hate", "share_nudity", "share_misinformation",
      "share_child_safety", "share_other">>
SHARE_COLS_SRC == <<"share_user", "share_ai", "share_trusted">>

Range(s) == {s[i] : i \in 1..Len(s)}
Finding(check, col, n) == [check |-> check, col |-> col, n |-> n]
MissingFinding(cols) == [check |-> "missing_columns", col |-> cols, n |-> 0]
\* the row labels of t
Index(t) == 1..Len(t.data)
\* between with both ends excluded
BetweenExclusive(x, lo, hi) == x.k = "num" /\ lo < x.v /\ x.v < hi
\* Series.between(lo, hi) on a float value (both ends included; false for NaN)
Between(x, lo, hi) == x.k = "num" /\ lo <= x.v /\ x.v <= hi
\* df[cols].sum(axis=1) over integer count columns
RECURSIVE RowSum(_, _)
RowSum(r, cols) == IF cols = <<>> THEN 0 ELSE r[Head(cols)] + RowSum(r, Tail(cols))
\* df[cols].sum(axis=1) over float columns: missing values are skipped; the
\* result is not finite as soon as one value is infinite
RECURSIVE ShareSum(_, _)
ShareSum(r, cols) ==
    IF cols = <<>> THEN Num(0)
    ELSE LET x == r[Head(cols)]
             rest == ShareSum(r, Tail(cols))
         IN  IF rest.k # "num" THEN rest
             ELSE IF x.k = "nan" THEN rest
             ELSE IF x.k = "inf" THEN x
             ELSE Num(x.v + rest.v)
\* np.isclose(x, 1.0, atol=tol, rtol=0)
CloseToOne(x, tol) == x.k = "num" /\ x.v - EpsInv <= tol /\ EpsInv - x.v <= tol

\* lines 66-69 and 108-111: one finding per column with values out of [lo, hi]
RECURSIVE BoundFindings(_, _, _, _, _)
BoundFindings(t, check, cols, lo, hi) ==
    IF cols = <<>> THEN <<>>
    ELSE LET col == Head(cols)
             bad == {i \in Index(t) : ~IsNaN(t.data[i][col]) /\ ~Between(t.data[i][col], lo, hi)}
         IN  (IF bad # {} THEN <<Finding(check, col, Cardinality(bad))>> ELSE <<>>)
             \o BoundFindings(t, check, Tail(cols), lo, hi)

\* one finding that counts the rows of the set bad, when there are any
RowFinding(check, bad) ==
    IF bad # {} THEN <<Finding(check, "", Cardinality(bad))>> ELSE <<>>

\* lines 49-58: rows with a negative count
NonNegFindings(t) ==
    RowFinding("negative_counts",
               {i \in Index(t) : \E c \in Range(NONNEG_COLS) : t.data[i][c] < 0})
\* lines 60-63: rows whose response time is not in [0, 48] hours
ResponseFindings(t) ==
    RowFinding("response_time",
               {i \in Index(t) : ~(0 <= t.data[i].median_response_time_hours
                                    /\ t.data[i].median_response_time_hours <= 480)})
\* lines 71-82: the three funnel inequalities
FunnelFindings(t) ==
    LET r(i) == t.data[i]
    IN  RowFinding("enforcements_gt_reports",
                   {i \in Index(t) : r(i).enforcements > r(i).reports})
        \o RowFinding("appeals_gt_enforcements",
                      {i \in Index(t) : r(i).appeals > r(i).enforcements})
        \o RowFinding("successful_gt_appeals",
                      {i \in Index(t) : r(i).successful_appeals > r(i).appeals})
\* lines 84-101: the three sums (np.isclose with atol=0, rtol=0 is equality)
ConservationFindings(t) ==
    LET r(i) == t.data[i]
    IN  RowFinding("category_sum",
                   {i \in Index(t) : RowSum(r(i), COUNT_COLS_CAT) # r(i).reports})
        \o RowFinding("source_sum",
                      {i \in Index(t) : RowSum(r(i), COUNT_COLS_SRC) # r(i).reports})
        \o RowFinding("enforcement_sum",
                      {i \in Index(t) : RowSum(r(i), COUNT_COLS_ENF) # r(i).enforcements})
\* lines 113-123: the share sums of the rows with reports
ShareSumFindings(t, share_tol) ==
    LET r(i) == t.data[i]
        pos_report == {i \in Index(t) : r(i).reports > 0}
    IN  RowFinding("category_share_sum",
                   {i \in pos_report : ~CloseToOne(ShareSum(r(i), SHARE_COLS_CAT), share_tol)})
        \o RowFinding("source_share_sum",
                      {i \in pos_report : ~CloseToOne(ShareSum(r(i), SHARE_COLS_SRC), share_tol)})
\* lines 125-129: df.duplicated marks every row whose pair occurred before
DuplicateFindings(t) ==
    LET pairs == {<<t.data[i].country, t.data[i].date>> : i \in Index(t)}
        dup_pairs == Len(t.data) - Cardinality(pairs)
    IN  IF dup_pairs > 0 THEN <<Finding("duplicates", "", dup_pairs)>> ELSE <<>>

\* run_checks that leaves at the first check with a finding
DeepChecksShortCircuit(t, eps, share_tol) ==
    LET counts == NonNegFindings(t) \o ResponseFindings(t)
    IN  IF counts # <<>> THEN counts
        ELSE BoundFindings(t, "rate_bounds", KPI_COLUMNS, 0, EpsInv)
             \o FunnelFindings(t)
             \o ConservationFindings(t)
             \o BoundFindings(t, "share_bounds", SHARE_COLS_CAT \o SHARE_COLS_SRC,
                              0 - eps, EpsInv + eps)
             \o ShareSumFindings(t, share_tol)
             \o DuplicateFindings(t)
\* lines 49-129: the checks that follow the schema check, in order
DeepChecks(t, eps, share_tol) ==
    NonNegFindings(t)
    \o ResponseFindings(t)
    \o BoundFindings(t, "rate_bounds", KPI_COLUMNS, 0, EpsInv)
    \o FunnelFindings(t)
    \o ConservationFindings(t)
    \o BoundFindings(t, "share_bounds", SHARE_COLS_CAT \o SHARE_COLS_SRC, 0 - eps, EpsInv + eps)
    \o ShareSumFindings(t, share_tol)
    \o DuplicateFindings(t)

\* run_checks whose schema finding names the first missing column only
RunChecksOnFirstMissing(t, eps, share_tol) ==
    LET missing == SelectSeq(REQUIRED, LAMBDA c : c \notin Range(t.cols))
    IN  IF missing # <<>> THEN <<MissingFinding(<<Head(missing)>>)>>
        ELSE DeepChecks(t, eps, share_tol)
\* run_checks(df, eps, share_tol), lines 22-131
RunChecksOn(t, eps, share_tol) ==
    LET missing == SelectSeq(REQUIRED, LAMBDA c : c \notin Range(t.cols))
        found == IF missing # <<>> THEN <<MissingFinding(missing)>> ELSE <<>>
    IN  IF found # <<>> THEN found ELSE DeepChecks(t, eps, share_tol)

\* the default tolerances of run_checks, in units of 1 / EpsInv
DefaultEps == 1
DefaultShareTol == ShareTolPct * (EpsInv \div 100)

\* faulty variant: the missing rates are filled with 0 in the caller's table
RunChecksFillingNa ==
    /\ pc \in {"generated", "loaded"}
    /\ problems' = RunChecksOn(df, DefaultEps, DefaultShareTol)
    /\ df' = [df EXCEPT !.data =
                [i \in DOMAIN @ |->
                    [c \in DOMAIN @[i] |->
                        IF c \in Range(KPI_COLUMNS) /\ IsNaN(@[i][c]) THEN Num(0) ELSE @[i][c]]]]
    /\ pc' = "checked"
    /\ UNCHANGED <<out, args, memo, config, day, ci, cell, rng, first, edits, an, gen>>
\* main.run_all, line 32 (and any caller of run_checks on a table)
RunChecks ==
    /\ pc \in {"generated", "loaded"}
    /\ problems' = RunChecksOn(df, DefaultEps, DefaultShareTol)
    /\ pc' = "checked"
    /\ UNCHANGED <<out, args, memo, config, day, ci, cell, df, rng, first, edits, an, gen>>

(***************************************************************************)
(* Generation followed by validation (main.run_all, steps 1 and 2)         *)
(***************************************************************************)
Init ==
    /\ config \in Configs
    /\ pc = "ready"
    /\ day = 1
    /\ ci = 1
    /\ cell = NoCell
    /\ df = EmptyTable
    /\ problems = <<>>
    /\ rng = Seeded(FALSE, <<>>)
    /\ first = NoFirst
    /\ edits = 0
    /\ out = NoOutput
    /\ args = NoArgs
    /\ memo = NoMemo
    /\ an = NoOutput
    /\ gen = <<>>

Generate == GenStart \/ CellStart \/ CatSkip \/ CatStep \/ CellEnd \/ Derive

Next == Generate \/ RunChecks

Spec == Init /\ [][Next]_vars

(***************************************************************************)
(* Two invocations of generate_dataframe with one seed and configuration.  *)
(* The second one runs either in the same process (the random state goes   *)
(* on from where the first left it) or in a new process, whose import of   *)
(* config.py seeds the state again.  Other code of the process may draw    *)
(* from np.random between the import and the call.                         *)
(***************************************************************************)
\* configuration of the two-invocation runs: one cell with at most one
\* report, of one category and one source
ConfigOne ==
    [COUNTRIES |-> <<"Singapore">>,
     BASE_USERS |-> [Singapore |-> 1000],
     START_DATE |-> 0, END_DATE |-> 0,
     BASE_CAT_P |-> OneHot("spam"), SOURCE_MIX |-> USER_ONLY]
SeedConfigs == {ConfigOne}

InitSeed ==
    /\ config \in SeedConfigs
    /\ pc = "ready"
    /\ day = 1
    /\ ci = 1
    /\ cell = NoCell
    /\ df = EmptyTable
    /\ problems = <<>>
    /\ rng = Seeded(TRUE, <<>>)
    /\ first = NoFirst
    /\ edits = 0
    /\ out = NoOutput
    /\ args = NoArgs
    /\ memo = NoMemo
    /\ an = NoOutput
    /\ gen = <<>>

\* the table of the first invocation is kept by its caller
Returned == [cols |-> df.cols, data |-> df.data, start |-> rng.start, done |-> TRUE]

\* generate_dataframe() is called again in the same process
Reinvoke ==
    /\ pc = "generated"
    /\ ~first.done
    /\ first' = Returned
    /\ pc' = "ready"
    /\ UNCHANGED <<out, args, memo, config, day, ci, cell, df, problems, rng, edits, an, gen>>

\* a new process: importing config.py runs np.random.seed(SEED)
Restart ==
    /\ pc = "generated"
    /\ ~first.done
    /\ first' = Returned
    /\ rng' = Seeded(TRUE, rng.tape)
    /\ pc' = "ready"
    /\ UNCHANGED <<out, args, memo, config, day, ci, cell, df, problems, edits, an, gen>>

\* other code draws a random number from the global state before
\* generate_dataframe is called
OtherConsumer ==
    /\ pc = "ready"
    /\ rng.pos = 0
    /\ rng' = [rng EXCEPT !.pos = @ + 1]
    /\ UNCHANGED <<out, args, memo, config, pc, day, ci, cell, df, problems, first, edits, an, gen>>

NextSeed == Generate \/ Reinvoke \/ Restart \/ OtherConsumer

SpecSeed == InitSeed /\ [][NextSeed]_vars

\* both invocations have returned
BothReturned == pc = "generated" /\ first.done
\* C6: any two invocations with the same seed and configuration return
\* identical tables, whatever was drawn from the random state before.
C6_SameSeedSameTable ==
    BothReturned => (df.cols = first.cols /\ df.data = first.data)
\* what the code does guarantee: two invocations that both start right after
\* the seeding, in two processes, return identical tables
SeededRunsAgree ==
    (BothReturned /\ first.start = 0 /\ rng.start = 0)
        => (df.cols = first.cols /\ df.data = first.data)

(***************************************************************************)
(* run_checks on tables of any origin: a table is loaded, some of its      *)
(* cells are overwritten or some of its columns removed, and it is         *)
(* validated.                                                              *)
(***************************************************************************)
\* a complete row from its raw columns (the derived ones as data_gen derives them)
MakeRow(c, d, core, rt, cats, srcs, enfs) ==
    LET raw == [date |-> d, country |-> c,
                active_users |-> core[1], content_created |-> core[2], reports |-> core[3],
                enforcements |-> core[4], appeals |-> core[5], successful_appeals |-> core[6],
                median_response_time_hours |-> rt,
                reports_spam |-> cats[1], reports_harassment_hate |-> cats[2],
                reports_nudity |-> cats[3], reports_misinformation |-> cats[4],
                reports_child_safety |-> cats[5], reports_other |-> cats[6],
                reports_user |-> srcs[1], reports_ai |-> srcs[2], reports_trusted |-> srcs[3],
                enf_removed |-> enfs[1], enf_warning |-> enfs[2],
                enf_suspension |-> enfs[3], enf_downrank |-> enfs[4]]
    IN  raw @@ Derived(raw)
\* a row with reports of one category, every enforcement appealed
RowA ==
    MakeRow("Singapore", 0, <<100, 50, 4, 2, 2, 0>>, 240,
            <<4, 0, 0, 0, 0, 0>>, <<2, 1, 1>>, <<1, 1, 0, 0>>)
\* a row without content and without reports
RowZ ==
    MakeRow("Indonesia", 0, <<10, 0, 0, 0, 0, 0>>, 60,
            <<0, 0, 0, 0, 0, 0>>, <<0, 0, 0>>, <<0, 0, 0, 0>>)
\* df.loc[i, col] = val
SetValue(t, i, col, val) == [t EXCEPT !.data[i] = [@ EXCEPT ![col] = val]]
\* df.drop(columns=[col])
WithoutColumn(t, col) ==
    [cols |-> SelectSeq(t.cols, LAMBDA c : c # col),
     data |-> [i \in 1..Len(t.data) |->
                 [c \in (DOMAIN t.data[i]) \ {col} |-> t.data[i][c]]]]
SoundTable == [cols |-> REQUIRED, data |-> <<RowA, RowZ>>]
\* the tables that are loaded: no rows, sound rows, a category count that
\* breaks the sum, a repeated (country, date) pair, more enforcements than
\* reports, and a table without its reports column
LoadedTables ==
    {[cols |-> REQUIRED, data |-> <<>>],
     SoundTable,
     SetValue(SoundTable, 1, "reports_spam", 3),
     SetValue(SoundTable, 2, "country", "Singapore"),
     SetValue(SoundTable, 1, "enforcements", 5),
     WithoutColumn(SoundTable, "reports")}

\* values written into a cell of column col that holds cur
EditValues(col, cur) ==
    IF col = "country" THEN {"Singapore", "Indonesia"}
    ELSE IF col = "date" THEN {0, 1}
    ELSE IF col = "median_response_time_hours" THEN {-1, 0, 480, 481}
    ELSE IF col \in Range(NONNEG_COLS) THEN {-1, cur + 1}
    ELSE IF col \in Range(KPI_COLUMNS) THEN {NaN, Inf(1), Num(-1), Num(EpsInv + 1)}
    ELSE {NaN, Inf(1), Num(-2), Num(-1), Num(EpsInv + 1), Num(EpsInv + 2)}
         \cup (IF cur.k = "num"
               THEN {Num(cur.v - DefaultShareTol), Num(cur.v - DefaultShareTol - 1)}
               ELSE {})

InitChk ==
    /\ config = ConfigGrid
    /\ pc = "loaded"
    /\ day = 1
    /\ ci = 1
    /\ cell = NoCell
    /\ df \in LoadedTables
    /\ problems = <<>>
    /\ rng = Seeded(FALSE, <<>>)
    /\ first = NoFirst
    /\ edits = 0
    /\ out = NoOutput
    /\ args = NoArgs
    /\ memo = NoMemo
    /\ an = NoOutput
    /\ gen = <<>>

\* a cell of the first row, or the key of any row, is overwritten
SetCell ==
    /\ pc = "loaded"
    /\ edits < MaxEdits
    /\ \E i \in Index(df), col \in Range(df.cols) :
         /\ i = 1 \/ col \in {"country", "date"}
         /\ \E val \in EditValues(col, df.data[i][col]) :
              /\ val # df.data[i][col]
              /\ df' = SetValue(df, i, col, val)
    /\ edits' = edits + 1
    /\ UNCHANGED <<out, args, memo, config, pc, day, ci, cell, problems, rng, first, an, gen>>

\* a column is removed from the table
DropColumn ==
    /\ pc = "loaded"
    /\ edits < MaxEdits
    /\ \E col \in Range(df.cols) : df' = WithoutColumn(df, col)
    /\ edits' = edits + 1
    /\ UNCHANGED <<out, args, memo, config, pc, day, ci, cell, problems, rng, first, an, gen>>

\* run_checks is called a second time on the table it has validated
RunChecksAgain ==
    /\ pc = "checked"
    /\ problems' = RunChecksOn(df, DefaultEps, DefaultShareTol)
    /\ pc' = "rechecked"
    /\ UNCHANGED <<out, args, memo, config, day, ci, cell, df, rng, first, edits, an, gen>>

NextChk == SetCell \/ DropColumn \/ RunChecks \/ RunChecksAgain

SpecChk == InitChk /\ [][NextChk]_vars

(***************************************************************************)
(* Properties of the generated table                                       *)
(***************************************************************************)
Rows == Range(df.data)
Generated == pc \in {"generated", "checked"}

\* C1: in every generated row the six category counts are non-negative and
\* sum exactly to reports; when reports is 0 all six are 0.  The same holds
\* of the split of a cell from the moment it is drawn.
C1_CategoryCountsSumToReports ==
    /\ \A r \in Rows :
         /\ \A c \in Range(COUNT_COLS_CAT) : r[c] >= 0
         /\ RowSum(r, COUNT_COLS_CAT) = r.reports
         /\ r.reports = 0 => \A c \in Range(COUNT_COLS_CAT) : r[c] = 0
    /\ pc = "cat" =>
         /\ SeqSum(cell.cat_counts) = cell.reports_total
         /\ \A i \in 1..NCAT : cell.cat_counts[i] >= 0
\* a finished table with a row whose reports fall into two categories at least
C1_Witness ==
    /\ Generated
    /\ \E r \in Rows : r.reports >= 2 /\ \E c \in Range(COUNT_COLS_CAT) : 0 < r[c] /\ r[c] < r.reports

\* C2: in every generated row reports_user + reports_ai + reports_trusted
\* equals reports, and while the categories of a cell are processed the source
\* totals equal the reports of the categories processed so far.
C2_SourceCountsSumToReports ==
    /\ \A r \in Rows : RowSum(r, COUNT_COLS_SRC) = r.reports
    /\ pc = "cat" =>
         cell.reports_user + cell.reports_ai + cell.reports_trusted
           = SeqSum(SubSeq(cell.cat_counts, 1, cell.k - 1))
\* a row whose reports come from two categories and from two sources
C2_Witness ==
    /\ Generated
    /\ \E r \in Rows :
         /\ \E c \in Range(COUNT_COLS_CAT) : 0 < r[c] /\ r[c] < r.reports
         /\ \E c \in Range(COUNT_COLS_SRC) : 0 < r[c] /\ r[c] < r.reports

\* C3: in every generated row the four enforcement-type counts sum exactly to
\* enforcements, also when a category's enforced count truncates to 0.
C3_EnforcementTypesSumToEnforcements ==
    /\ \A r \in Rows : RowSum(r, COUNT_COLS_ENF) = r.enforcements
    /\ pc = "cat" =>
         cell.enf_removed + cell.enf_warning + cell.enf_suspension + cell.enf_downrank
           = cell.enforcements_total
\* a row with enforcements of two types, and with a category whose single
\* report was not enforced (its enforced count truncated to 0)
C3_Witness ==
    /\ Generated
    /\ \E r \in Rows :
         /\ \E c \in Range(COUNT_COLS_ENF) : 0 < r[c] /\ r[c] < r.enforcements
         /\ r.enforcements < r.reports

\* the step that processes one category of a cell
CategoryProcessed == pc = "cat" /\ pc' = "cat" /\ cell'.k = cell.k + 1
\* C4: 0 <= successful_appeals <= appeals <= enforcements <= reports in every
\* generated row, and the same chain for what each single category adds:
\* succ <= appeals <= enfs <= count.
C4_FunnelChain ==
    /\ [](\A r \in Rows :
            /\ 0 <= r.successful_appeals
            /\ r.successful_appeals <= r.appeals
            /\ r.appeals <= r.enforcements
            /\ r.enforcements <= r.reports)
    /\ [][CategoryProcessed =>
            LET succ == cell'.successful_appeals_total - cell.successful_appeals_total
                appeals == cell'.appeals_total - cell.appeals_total
                enfs == cell'.enforcements_total - cell.enforcements_total
            IN  /\ 0 <= succ
                /\ succ <= appeals
                /\ appeals <= enfs
                /\ enfs <= cell.cat_counts[cell.k]]_vars
\* a row with at least one successful appeal, fewer than its appeals
C4_Witness ==
    /\ Generated
    /\ \E r \in Rows :
         /\ 1 <= r.successful_appeals
         /\ r.successful_appeals < r.appeals
         /\ r.appeals < r.enforcements
         /\ r.enforcements < r.reports

\* C5: run_checks returns the empty list for every table generate_dataframe
\* produces.
C5_GeneratedTablePassesChecks ==
    pc = "checked" => problems = <<>>
\* a validated table with enforcements and appeals
C5_Witness ==
    /\ pc = "checked"
    /\ problems = <<>>
    /\ \E r \in Rows : r.appeals > 0 /\ r.reports > r.enforcements

\* a row without reports
NoReports(r) == r.reports = 0
\* C10 as stated: in a generated row with reports = 0 every derived rate and
\* share is missing, and the validator has no finding.
C10_Original ==
    Generated =>
      /\ \A r \in Rows : NoReports(r) =>
            \A c \in Range(KPI_COLUMNS \o SHARE_COLUMNS) : IsNaN(r[c])
      /\ (pc = "checked" /\ \E r \in Rows : NoReports(r)) => problems = <<>>
\* C10 amended: in a generated row with reports = 0, enforcement_rate,
\* appeal_rate, appeal_success_rate and the nine shares are missing (never 0);
\* report_rate = reports / content_created is missing only when
\* content_created is 0 too and is the number 0 otherwise; the validator has
\* no finding for a table with such rows.
C10_ZeroReportsRow ==
    Generated =>
      /\ \A r \in Rows : NoReports(r) =>
            /\ \A c \in Range(Tail(KPI_COLUMNS) \o SHARE_COLUMNS) : IsNaN(r[c])
            /\ r.report_rate = (IF r.content_created = 0 THEN NaN ELSE Num(0))
      /\ (pc = "checked" /\ \E r \in Rows : NoReports(r)) => problems = <<>>
\* a validated table with a row that has content but no reports
C10_Witness ==
    /\ pc = "checked"
    /\ \E r \in Rows : NoReports(r) /\ r.content_created > 0

(***************************************************************************)
(* Properties of run_checks on loaded and edited tables (SpecChk)          *)
(***************************************************************************)
Checked == pc = "checked"
MissingColumns == Range(REQUIRED) \ Range(df.cols)

\* C7: for a table that lacks required columns run_checks returns exactly
\* one finding, the finding names every missing column, and no later check
\* contributes, whatever the data of the remaining columns
C7_MissingColumnsOnlyFinding ==
    (Checked /\ MissingColumns # {}) =>
        /\ Len(problems) = 1
        /\ problems[1].check = "missing_columns"
        /\ Range(problems[1].col) = MissingColumns
\* a table without its reports column and with a negative count was validated
C7_Witness ==
    /\ Checked
    /\ MissingColumns = {"reports"}
    /\ df.data # <<>>
    /\ df.data[1].active_users < 0
    /\ Len(problems) = 1

\* soundness of a row, as the sum of the properties a sound table has
InUnit(x, slack) == x.k = "nan" \/ (x.k = "num" /\ 0 - slack <= x.v /\ x.v <= EpsInv + slack)
SumsToOne(r, cols, tol) ==
    LET total == ShareSum(r, cols)
    IN  total.k = "num" /\ EpsInv - tol <= total.v /\ total.v <= EpsInv + tol
SoundRow(r) ==
    /\ \A c \in Range(NONNEG_COLS) : r[c] >= 0
    /\ r.median_response_time_hours \in 0..480
    /\ \A c \in Range(KPI_COLUMNS) : InUnit(r[c], 0)
    /\ \A c \in Range(SHARE_COLUMNS) : InUnit(r[c], DefaultEps)
    /\ r.enforcements <= r.reports
    /\ r.appeals <= r.enforcements
    /\ r.successful_appeals <= r.appeals
    /\ RowSum(r, COUNT_COLS_CAT) = r.reports
    /\ RowSum(r, COUNT_COLS_SRC) = r.reports
    /\ RowSum(r, COUNT_COLS_ENF) = r.enforcements
    /\ r.reports > 0 => /\ SumsToOne(r, SHARE_COLS_CAT, DefaultShareTol)
                        /\ SumsToOne(r, SHARE_COLS_SRC, DefaultShareTol)
Sound(t) ==
    /\ Range(REQUIRED) \subseteq Range(t.cols)
    /\ \A i \in Index(t) : SoundRow(t.data[i])
    /\ \A i, j \in Index(t) :
         (t.data[i].country = t.data[j].country /\ t.data[i].date = t.data[j].date) => i = j

CheckKeys ==
    <<<<"negative_counts", "">>, <<"response_time", "">>>>
    \o [k \in 1..Len(KPI_COLUMNS) |-> <<"rate_bounds", KPI_COLUMNS[k]>>]
    \o <<<<"enforcements_gt_reports", "">>, <<"appeals_gt_enforcements", "">>,
          <<"successful_gt_appeals", "">>, <<"category_sum", "">>, <<"source_sum", "">>,
          <<"enforcement_sum", "">>>>
    \o [k \in 1..Len(SHARE_COLUMNS) |-> <<"share_bounds", SHARE_COLUMNS[k]>>]
    \o <<<<"category_share_sum", "">>, <<"source_share_sum", "">>, <<"duplicates", "">>>>
\* the rows of t that violate the check of key
Affected(t, key) ==
    LET r(i) == t.data[i]
        check == key[1]
        col == key[2]
    IN  {i \in Index(t) :
           CASE check = "negative_counts" -> \E c \in Range(NONNEG_COLS) : r(i)[c] < 0
             [] check = "response_time" -> r(i).median_response_time_hours \notin 0..480
             [] check = "rate_bounds" -> ~InUnit(r(i)[col], 0)
             [] check = "enforcements_gt_reports" -> r(i).enforcements > r(i).reports
             [] check = "appeals_gt_enforcements" -> r(i).appeals > r(i).enforcements
             [] check = "successful_gt_appeals" -> r(i).successful_appeals > r(i).appeals
             [] check = "category_sum" -> RowSum(r(i), COUNT_COLS_CAT) # r(i).reports
             [] check = "source_sum" -> RowSum(r(i), COUNT_COLS_SRC) # r(i).reports
             [] check = "enforcement_sum" -> RowSum(r(i), COUNT_COLS_ENF) # r(i).enforcements
             [] check = "share_bounds" -> ~InUnit(r(i)[col], DefaultEps)
             [] check = "category_share_sum" ->
                    r(i).reports > 0 /\ ~SumsToOne(r(i), SHARE_COLS_CAT, DefaultShareTol)
             [] check = "source_share_sum" ->
                    r(i).reports > 0 /\ ~SumsToOne(r(i), SHARE_COLS_SRC, DefaultShareTol)
             [] check = "duplicates" ->
                    \E j \in 1..(i - 1) :
                        r(j).country = r(i).country /\ r(j).date = r(i).date}
KeyOf(f) == <<f.check, f.col>>

\* C9: with all required columns present every check is evaluated: the
\* findings are one per violated check (per column for the rate and share
\* bounds), each with the number of affected rows, in the fixed order
C9_EveryCheckReported ==
    (Checked /\ MissingColumns = {}) =>
        /\ \A k \in 1..Len(CheckKeys) :
             (Affected(df, CheckKeys[k]) # {})
                 <=> (\E j \in 1..Len(problems) : KeyOf(problems[j]) = CheckKeys[k])
        /\ \A j \in 1..Len(problems) :
             /\ KeyOf(problems[j]) \in Range(CheckKeys)
             /\ problems[j].n = Cardinality(Affected(df, KeyOf(problems[j])))
        /\ \A i, j \in 1..Len(problems) :
             i < j => IndexOf(CheckKeys, KeyOf(problems[i])) < IndexOf(CheckKeys, KeyOf(problems[j]))
\* a table with a negative count and two later violations was validated
C9_Witness ==
    /\ Checked
    /\ MissingColumns = {}
    /\ Len(problems) >= 3
    /\ problems[1].check = "negative_counts"
    /\ problems[Len(problems)].check # "negative_counts"


(***************************************************************************)
(* Derived columns and row set of the generated table (Spec)               *)
(***************************************************************************)
\* x is the quotient num / den (cut to the unit of the fixed-point values)
\* when den is not 0, and missing when den is 0
IsQuotient(x, num, den) ==
    IF den = 0 THEN x.k = "nan"
    ELSE /\ x.k = "num"
         /\ x.v * den <= num * EpsInv
         /\ num * EpsInv < (x.v + 1) * den
\* the numerator and the denominator columns of the derived columns
RATIO_OF ==
    [report_rate |-> <<"reports", "content_created">>,
     enforcement_rate |-> <<"enforcements", "reports">>,
     appeal_rate |-> <<"appeals", "enforcements">>,
     appeal_success_rate |-> <<"successful_appeals", "appeals">>,
     share_spam |-> <<"reports_spam", "reports">>,
     share_harassment_hate |-> <<"reports_harassment_hate", "reports">>,
     share_nudity |-> <<"reports_nudity", "reports">>,
     share_misinformation |-> <<"reports_misinformation", "reports">>,
     share_child_safety |-> <<"reports_child_safety", "reports">>,
     share_other |-> <<"reports_other", "reports">>,
     share_user |-> <<"reports_user", "reports">>,
     share_ai |-> <<"reports_ai", "reports">>,
     share_trusted |-> <<"reports_trusted", "reports">>]

\* C17: in the generated table each derived column equals numerator /
\* denominator when its denominator is nonzero and is missing when the
\* denominator is 0 (never an infinity or a 0 made up for it)
C17_DerivedIsQuotientOrMissing ==
    Generated =>
        \A r \in Rows : \A c \in DOMAIN RATIO_OF :
            IsQuotient(r[c], r[RATIO_OF[c][1]], r[RATIO_OF[c][2]])
\* a generated row without content, whose report rate is missing
C17_Witness ==
    /\ Generated
    /\ \E r \in Rows : r.content_created = 0 /\ r.report_rate.k = "nan"

\* C18: in every generated row each rate and each share is missing or lies
\* in [0,1], and in a row with reports the six category shares and the three
\* source shares each sum to 1 within the tolerance of run_checks
C18_DerivedInUnitAndSharesSum ==
    Generated =>
        \A r \in Rows :
            /\ \A c \in Range(KPI_COLUMNS) \cup Range(SHARE_COLUMNS) : InUnit(r[c], 0)
            /\ r.reports > 0 => /\ SumsToOne(r, SHARE_COLS_CAT, DefaultShareTol)
                                /\ SumsToOne(r, SHARE_COLS_SRC, DefaultShareTol)
\* a generated row whose three reports came from three different sources
C18_Witness ==
    /\ Generated
    /\ \E r \in Rows :
         /\ r.reports = 3
         /\ r.share_user.v = r.share_ai.v
         /\ r.share_ai.v = r.share_trusted.v
         /\ r.enforcement_rate.v > 0

\* C19: the generated table has exactly one row per (day, country) pair of
\* the inclusive date range and the configured countries, day by day with
\* the countries in configured order
NumDays == Max(0, config.END_DATE - config.START_DATE + 1)
NumCountries == Len(config.COUNTRIES)
C19_OneRowPerDayAndCountry ==
    /\ \A k \in 1..Len(df.data) :
         pc \in {"cell", "cat", "derive", "generated", "checked"} =>
            /\ df.data[k].date = config.START_DATE + ((k - 1) \div NumCountries)
            /\ df.data[k].country = config.COUNTRIES[((k - 1) % NumCountries) + 1]
    /\ Generated => Len(df.data) = NumDays * NumCountries
\* a generated table of several days and several countries
C19_Witness ==
    /\ Generated
    /\ NumDays > 1
    /\ NumCountries > 1
    /\ Len(df.data) = NumDays * NumCountries

(***************************************************************************)
(* run_checks as a read-only pass (SpecChk)                                *)
(***************************************************************************)
\* a step in which run_checks runs
ChecksRun == pc' # pc /\ pc' \in {"checked", "rechecked"}
DET_COLUMNS ==
    <<"date", "country", "reports", "share_misinformation", "share_child_safety", "share_user">>
\* the metrics in the order detect_anomalies handles them (lines 29, 35, 43)
METRICS == <<"reports", "share_misinformation", "share_child_safety", "share_user">>
\* the columns of the returned table in the order they are created (lines 15, 30, 31)
OUTPUT_COLUMNS == <<"value", "zscore", "anomaly", "country", "date", "metric">>
\* thresholds are counted in tenths
THRESHOLD_UNIT == 10
\* the defaults of detect_anomalies: window 7, threshold 2.0
DefaultArgs == [window |-> 7, threshold |-> 2 * THRESHOLD_UNIT]

\* a missing mean, variance or z-score, and a defined one
NoFraction == [k |-> "nan", sgn |-> 0, num |-> 0, den |-> 1]
Fraction(sgn, num, den) == [k |-> "num", sgn |-> sgn, num |-> num, den |-> den]
Sign(x) == IF x > 0 THEN 1 ELSE IF x < 0 THEN -1 ELSE 0

\* df["country"].unique(): the values in order of first appearance
RECURSIVE Unique(_)
Unique(seq) ==
    IF seq = <<>> THEN <<>>
    ELSE LET u == Unique(SubSeq(seq, 1, Len(seq) - 1))
             x == seq[Len(seq)]
         IN  IF x \in Range(u) THEN u ELSE Append(u, x)
\* sort_values("date") on the rows labelled I: the labels in ascending date order
RECURSIVE SortByDate(_, _)
SortByDate(t, I) ==
    IF I = {} THEN <<>>
    ELSE LET m == CHOOSE i \in I :
                    \A j \in I : \/ t.data[i].date < t.data[j].date
                                 \/ (t.data[i].date = t.data[j].date /\ i <= j)
         IN  <<m>> \o SortByDate(t, I \ {m})
\* faulty variant: the rows of the country are left in table order
CountryRowsUnsorted(t, c) ==
    SelectSeq([i \in 1..Len(t.data) |-> i], LAMBDA i : t.data[i].country = c)
\* s = df[df["country"] == c].sort_values("date"), line 26
CountryRows(t, c) == SortByDate(t, {i \in Index(t) : t.data[i].country = c})
\* s[col] as a float series (reports is a count column)
Series(t, labels, col) ==
    [k \in 1..Len(labels) |->
        IF col = "reports" THEN Num(t.data[labels[k]][col]) ELSE t.data[labels[k]][col]]

\* faulty variant: the window ends before i
WindowObsBefore(series, i, window) ==
    SelectSeq(SubSeq(series, Max(1, i - window), i - 1), LAMBDA x : ~IsNaN(x))
\* rolling(window, min_periods=1): the observed values of the window that ends at i
WindowObs(series, i, window) ==
    SelectSeq(SubSeq(series, Max(1, i - window + 1), i), LAMBDA x : ~IsNaN(x))
RECURSIVE SumOf(_)
SumOf(obs) == IF obs = <<>> THEN 0 ELSE Head(obs).v + SumOf(Tail(obs))
RECURSIVE SumOfSquares(_)
SumOfSquares(obs) == IF obs = <<>> THEN 0 ELSE Head(obs).v * Head(obs).v + SumOfSquares(Tail(obs))
\* faulty variant: min_periods = window, no mean before the window is full
RollMeanFullWindow(series, i, window) ==
    LET obs == WindowObs(series, i, window)
    IN  IF Len(obs) < window THEN NoFraction
        ELSE Fraction(Sign(SumOf(obs)), SumOf(obs), Len(obs))
\* .mean(): missing without an observation
RollMean(series, i, window) ==
    LET obs == WindowObs(series, i, window)
    IN  IF obs = <<>> THEN NoFraction
        ELSE Fraction(Sign(SumOf(obs)), SumOf(obs), Len(obs))
\* faulty variant: the population variance (ddof = 0)
RollVarPopulation(series, i, window) ==
    LET obs == WindowObs(series, i, window)
        n == Len(obs)
        ssq == n * SumOfSquares(obs) - SumOf(obs) * SumOf(obs)
    IN  IF n < 2 THEN NoFraction ELSE Fraction(Sign(ssq), ssq, n * n)
\* .std() squared (ddof = 1): missing with fewer than two observations
RollVar(series, i, window) ==
    LET obs == WindowObs(series, i, window)
        n == Len(obs)
        ssq == n * SumOfSquares(obs) - SumOf(obs) * SumOf(obs)
    IN  IF n < 2 THEN NoFraction ELSE Fraction(Sign(ssq), ssq, n * (n - 1))
\* faulty variant: a zero deviation is replaced by 1
ReplaceZeroStdByOne(var) ==
    IF var.k = "num" /\ var.num = 0 THEN Fraction(1, var.den, var.den) ELSE var
\* .replace(0, np.nan), line 12
ReplaceZeroStd(var) == IF var.k = "num" /\ var.num = 0 THEN NoFraction ELSE var
\* (series - roll_mean) / roll_std, line 13: the sign of z and z squared
ZScore(x, mean, var) ==
    IF IsNaN(x) \/ mean.k = "nan" \/ var.k = "nan" THEN NoFraction
    ELSE LET dev == x.v * mean.den - mean.num       \* (x - mean) * n
             n == mean.den
         IN  Fraction(Sign(dev), dev * dev * (var.den \div n), n * var.num)
\* faulty variant: a z-score equal to the threshold is flagged as well
ExceedsOrEqual(z, threshold) ==
    /\ z.k = "num"
    /\ z.num * THRESHOLD_UNIT * THRESHOLD_UNIT >= threshold * threshold * z.den
\* zscores.abs() > threshold, line 14 (false for a missing z-score)
Exceeds(z, threshold) ==
    /\ z.k = "num"
    /\ \/ threshold < 0
       \/ z.num * THRESHOLD_UNIT * THRESHOLD_UNIT > threshold * threshold * z.den

\* detect_zscore_anomalies(series, window, threshold), lines 6-15
DetectZscoreAnomalies(series, window, threshold) ==
    [i \in 1..Len(series) |->
        LET roll_mean == RollMean(series, i, window)
            roll_std == ReplaceZeroStd(RollVar(series, i, window))
            zscores == ZScore(series[i], roll_mean, roll_std)
        IN  [value |-> series[i], zscore |-> zscores, anomaly |-> Exceeds(zscores, threshold)]]

\* lines 29-32, 37-40, 44-47: the rows of one country and one metric
MetricRows(t, c, col, window, threshold) ==
    LET s == CountryRows(t, c)
        res == DetectZscoreAnomalies(Series(t, s, col), window, threshold)
    IN  [k \in 1..Len(s) |->
            [value |-> res[k].value, zscore |-> res[k].zscore, anomaly |-> res[k].anomaly,
             country |-> c, date |-> t.data[s[k]].date, metric |-> col]]
\* lines 25-47 for the countries cs: results, concatenated
RECURSIVE CountryResults(_, _, _, _, _)
CountryResults(t, cs, cols, window, threshold) ==
    IF cs = <<>> THEN <<>>
    ELSE LET c == Head(cs)
             present == SelectSeq(METRICS, LAMBDA col : col \in cols)
             parts == [m \in 1..Len(present) |-> MetricRows(t, c, present[m], window, threshold)]
             Flat[m \in 0..Len(parts)] == IF m = 0 THEN <<>> ELSE Flat[m - 1] \o parts[m]
         IN  Flat[Len(parts)] \o CountryResults(t, Tail(cs), cols, window, threshold)

Raised(error, key) == [status |-> error, cols |-> <<key>>, data |-> <<>>]
\* detect_anomalies(df, window, threshold), lines 17-50: the returned table,
\* or the exception that leaves the function
DetectAnomalies(t, window, threshold) ==
    LET cols == Range(t.cols)
    IN  IF "country" \notin cols THEN Raised("KeyError", "country")             \* line 25
        ELSE IF t.data = <<>> THEN Raised("ValueError", "No objects to concatenate")  \* line 49
        ELSE IF "date" \notin cols THEN Raised("KeyError", "date")              \* line 26
        ELSE IF "reports" \notin cols THEN Raised("KeyError", "reports")        \* line 29
        ELSE [status |-> "ok", cols |-> OUTPUT_COLUMNS,
              data |-> CountryResults(t, Unique([i \in Index(t) |-> t.data[i].country]),
                                      cols, window, threshold)]

(***************************************************************************)
(* The detector on loaded tables: rows are appended to a table, then       *)
(* detect_anomalies is called on it any number of times.                   *)
(***************************************************************************)
\* a row of a detector table with v reports: without reports the shares are
\* missing
DetRow(c, d, v) ==
    [date |-> d, country |-> c, reports |-> v,
     share_misinformation |-> IF v = 0 THEN NaN ELSE Num(1),
     share_child_safety |-> Num(0),
     share_user |-> IF v = 0 THEN NaN ELSE Num(v)]
\* one country, one row per day with the given report counts
SeriesTable(c, values) ==
    [cols |-> DET_COLUMNS, data |-> [k \in 1..Len(values) |-> DetRow(c, k - 1, values[k])]]
\* len days of base reports, with spike reports on day pos (none for pos = 0)
SpikeTable(len, pos, base, spike) ==
    SeriesTable("Singapore", [k \in 1..len |-> IF k = pos THEN spike ELSE base])
\* rows stored out of date order
UnsortedTable ==
    [cols |-> DET_COLUMNS,
     data |-> <<DetRow("Singapore", 2, 2), DetRow("Singapore", 0, 0), DetRow("Singapore", 1, 1)>>]
\* stable reports with one small deviation on day 7 and a spike on day 15
NoisyTable ==
    SeriesTable("Singapore", [k \in 1..15 |-> IF k = 7 THEN 1 ELSE IF k = 15 THEN 8 ELSE 0])
\* the rows of two countries in turn
MixedTable ==
    [cols |-> DET_COLUMNS,
     data |-> <<DetRow("Singapore", 0, 0), DetRow("Indonesia", 0, 2), DetRow("Singapore", 1, 1),
                DetRow("Indonesia", 1, 2), DetRow("Singapore", 2, 2), DetRow("Indonesia", 2, 0)>>]
DetectorTables ==
    {[cols |-> DET_COLUMNS, data |-> <<>>], UnsortedTable, MixedTable, NoisyTable}
    \cup {SpikeTable(10, pos, base, base + rise) :
             pos \in {0, 7, 8, 10}, base \in {0, 2}, rise \in {1, 6}}
    \cup {WithoutColumn(UnsortedTable, col) : col \in Range(DET_COLUMNS)}
\* the (window, threshold) pairs detect_anomalies is called with
DetectorArgs ==
    {DefaultArgs,
     [window |-> 2, threshold |-> THRESHOLD_UNIT \div 2],
     [window |-> 3, threshold |-> THRESHOLD_UNIT]}

InitDet ==
    /\ config = ConfigGrid
    /\ pc = "loaded"
    /\ day = 1
    /\ ci = 1
    /\ cell = NoCell
    /\ df \in DetectorTables
    /\ problems = <<>>
    /\ rng = Seeded(FALSE, <<>>)
    /\ first = NoFirst
    /\ edits = 0
    /\ out = NoOutput
    /\ args = NoArgs
    /\ memo = NoMemo
    /\ an = NoOutput
    /\ gen = <<>>

\* the next day of a country is appended to the table (the first row of a
\* table is one of Singapore)
AddRow ==
    /\ pc = "loaded"
    /\ df.cols = DET_COLUMNS
    /\ Len(df.data) < MaxRows
    /\ \E c \in {"Singapore", "Indonesia"}, v \in 0..2 :
         LET d == Cardinality({i \in Index(df) : df.data[i].country = c})
         IN  /\ df.data = <<>> => c = "Singapore"
             /\ df' = [df EXCEPT !.data = Append(@, DetRow(c, d, v))]
    /\ UNCHANGED <<out, args, memo, config, pc, day, ci, cell, problems, rng, first, edits, an, gen>>

\* faulty variant: the rolling columns are kept in the caller's table
DetectCaching ==
    /\ pc \in {"loaded", "detected"}
    /\ \E a \in DetectorArgs :
         /\ args' = a
         /\ out' = DetectAnomalies(df, a.window, a.threshold)
         /\ memo' = IF memo = NoMemo THEN [args |-> a, out |-> out', others |-> FALSE]
                    ELSE [memo EXCEPT !.others = @ \/ a # memo.args]
    /\ df' = [df EXCEPT !.cols = IF "roll" \in Range(@) THEN @ ELSE Append(@, "roll")]
    /\ pc' = "detected"
    /\ UNCHANGED <<config, day, ci, cell, problems, rng, first, edits, an, gen>>
\* out = detect_anomalies(df, window, threshold) (save_anomalies, line 56)
Detect ==
    /\ pc \in {"loaded", "detected"}
    /\ \E a \in DetectorArgs :
         /\ args' = a
         /\ out' = DetectAnomalies(df, a.window, a.threshold)
         /\ memo' = IF memo = NoMemo THEN [args |-> a, out |-> out', others |-> FALSE]
                    ELSE [memo EXCEPT !.others = @ \/ a # memo.args]
    /\ pc' = "detected"
    /\ UNCHANGED <<config, day, ci, cell, df, problems, rng, first, edits, an, gen>>

NextDet == AddRow \/ Detect

SpecDet == InitDet /\ [][NextDet]_vars

(***************************************************************************)
(* Properties of the detector (SpecDet), stated on the input table         *)
(***************************************************************************)
Detected == pc = "detected" /\ out.status = "ok"
OutRows == Range(out.data)
\* the value of metric in row i of the input table, as a float
MetricValue(i, metric) ==
    IF metric = "reports" THEN Num(df.data[i][metric]) ELSE df.data[i][metric]
\* the rows of the trailing window of output row o: the row of o and the
\* rows of at most window - 1 immediately preceding dates of its country
TrailingWindow(o, window) ==
    {i \in Index(df) :
        /\ df.data[i].country = o.country
        /\ df.data[i].date <= o.date
        /\ Cardinality({j \in Index(df) : /\ df.data[j].country = o.country
                                          /\ df.data[i].date < df.data[j].date
                                          /\ df.data[j].date <= o.date}) < window}
\* those of them that hold a value
Observed(o, window) == {i \in TrailingWindow(o, window) : ~IsNaN(MetricValue(i, o.metric))}
RECURSIVE SetSum(_, _)
SetSum(I, f) ==
    IF I = {} THEN 0 ELSE LET i == CHOOSE j \in I : TRUE IN f[i] + SetSum(I \ {i}, f)
\* n * (x - mean) for a value x and the observations I
Deviation(x, I, metric) ==
    Cardinality(I) * x - SetSum(I, [i \in I |-> MetricValue(i, metric).v])
\* n * n * (n - 1) * variance of the observations I
SquaredDeviations(I, metric) ==
    SetSum(I, [i \in I |-> Deviation(MetricValue(i, metric).v, I, metric)
                             * Deviation(MetricValue(i, metric).v, I, metric)])
\* the rolling standard deviation of the window of o is exactly 0
ZeroStd(o, window) ==
    /\ Cardinality(Observed(o, window)) >= 2
    /\ \A i, j \in Observed(o, window) : MetricValue(i, o.metric) = MetricValue(j, o.metric)
\* the series of a country and a metric holds the same value on all its days
ConstantSeries(c, metric) ==
    \A i, j \in Index(df) :
        (df.data[i].country = c /\ df.data[j].country = c)
            => MetricValue(i, metric) = MetricValue(j, metric)

\* C11: a point whose trailing window has standard deviation exactly 0 has
\* an undefined z-score and is not flagged; no point of a constant series is
\* flagged, whatever the window and the threshold
C11_ZeroStdNeverFlagged ==
    Detected =>
        \A o \in OutRows :
            /\ ZeroStd(o, args.window) => (o.zscore.k = "nan" /\ ~o.anomaly)
            /\ ConstantSeries(o.country, o.metric) => ~o.anomaly
\* the detector ran with its defaults on ten days of constant reports
C11_Witness ==
    /\ Detected
    /\ args = DefaultArgs
    /\ Len(df.data) = 10
    /\ ConstantSeries("Singapore", "reports")
    /\ \E o \in OutRows : o.metric = "reports" /\ o.value = Num(2) /\ ZeroStd(o, args.window)

\* the z-score of o is defined: o has a value and its window a nonzero deviation
ZDefined(o, window) ==
    /\ ~IsNaN(o.value)
    /\ Cardinality(Observed(o, window)) >= 2
    /\ SquaredDeviations(Observed(o, window), o.metric) # 0
\* C12: zscore = (value - mean) / std over the trailing window of the same
\* country in date order, and anomaly holds exactly when |zscore| is
\* strictly greater than the threshold
C12_ZScoreOfTrailingWindow ==
    Detected =>
        \A o \in OutRows :
            LET I == Observed(o, args.window)
                n == Cardinality(I)
            IN  /\ o.zscore.k = "num" <=> ZDefined(o, args.window)
                /\ ZDefined(o, args.window) =>
                     LET dev == Deviation(o.value.v, I, o.metric)
                         ssd == SquaredDeviations(I, o.metric)
                     IN  /\ o.zscore.sgn = Sign(dev)
                         /\ o.zscore.num * ssd = dev * dev * (n - 1) * o.zscore.den
                         /\ o.anomaly <=>
                              dev * dev * (n - 1) * THRESHOLD_UNIT * THRESHOLD_UNIT
                                  > args.threshold * args.threshold * ssd
                /\ ~ZDefined(o, args.window) => ~o.anomaly
\* in a table of two countries a point whose |zscore| equals the threshold
\* was not flagged
C12_Witness ==
    /\ Detected
    /\ \E i \in Index(df) : df.data[i].country = "Indonesia"
    /\ \E o \in OutRows :
         /\ o.country = "Singapore"
         /\ o.zscore.k = "num"
         /\ o.zscore.num * THRESHOLD_UNIT * THRESHOLD_UNIT
              = args.threshold * args.threshold * o.zscore.den
         /\ ~o.anomaly
    /\ \E o \in OutRows : o.anomaly

\* C13: detect_anomalies returns exactly one row per (country, date, metric)
\* of the input table for the four metrics, and the returned table carries
\* the columns date, country, metric, value, rolling_mean, rolling_std,
\* zscore and anomaly
C13_OneRowPerCombinationWithRollingColumns ==
    (pc = "detected" /\ df.cols = DET_COLUMNS) =>
        /\ out.status = "ok"
        /\ Len(out.data) = Len(df.data) * Len(METRICS)
        /\ \A i \in Index(df), metric \in Range(METRICS) :
             \E o \in OutRows :
                 /\ o.country = df.data[i].country
                 /\ o.date = df.data[i].date
                 /\ o.metric = metric
        /\ {"date", "country", "metric", "value", "rolling_mean", "rolling_std",
            "zscore", "anomaly"} \subseteq Range(out.cols)

\* the output rows of the series of o, and those before o
SeriesRows(o) == {q \in OutRows : q.country = o.country /\ q.metric = o.metric}
Preceding(o) == {q \in SeriesRows(o) : q.date < o.date}
\* o is preceded by at least window - 1 points of its series
FullWindowBefore(o, window) == Cardinality(Preceding(o)) >= window - 1
\* the series of o holds one value on all days but the day of o
ConstantExcept(o) ==
    /\ \A q \in SeriesRows(o) : ~IsNaN(q.value)
    /\ \A q, r \in SeriesRows(o) \ {o} : q.value = r.value
    /\ \A q \in SeriesRows(o) \ {o} : q.value # o.value
\* the series of o stays within 1 of the value before o on all days but the
\* day of o, where it is 6 or more away, after window - 1 equal values
NearConstantExcept(o, window) ==
    /\ \A q \in SeriesRows(o) : ~IsNaN(q.value)
    /\ \E b \in Preceding(o) :
         /\ b.date = o.date - 1
         /\ \A q \in SeriesRows(o) \ {o} :
              q.value.v - b.value.v \in -1..1
         /\ \A q \in Preceding(o) : q.date >= o.date - (window - 1) => q.value = b.value
         /\ o.value.v - b.value.v \notin -5..5
\* o alone is flagged in its series
AloneFlagged(o) == o.anomaly /\ \A q \in SeriesRows(o) \ {o} : ~q.anomaly

\* C14 as stated: with the defaults (window 7, threshold 2.0) the one extreme
\* value of a constant or near-constant series, preceded by a stable window
\* of at least window - 1 points, is flagged and no other point is
C14_Original ==
    (Detected /\ args = DefaultArgs) =>
        \A o \in OutRows :
            (FullWindowBefore(o, args.window) /\ NearConstantExcept(o, args.window))
                => AloneFlagged(o)
\* C14: with the defaults the one deviating value of an otherwise constant
\* series, preceded by at least window - 1 points, is flagged and no other
\* point of the series is, the points that follow it included
C14_SpikeOfConstantSeriesAloneFlagged ==
    (Detected /\ args = DefaultArgs) =>
        \A o \in OutRows :
            (FullWindowBefore(o, args.window) /\ ConstantExcept(o)) => AloneFlagged(o)
\* a spike on day 8 of ten days was flagged and the two days after it were not
C14_Witness ==
    /\ Detected
    /\ args = DefaultArgs
    /\ \E o \in OutRows :
         /\ o.metric = "reports"
         /\ FullWindowBefore(o, args.window)
         /\ ConstantExcept(o)
         /\ o.anomaly
         /\ Cardinality({q \in SeriesRows(o) : q.date > o.date /\ ~q.anomaly}) = 2

C20_MissingColumnReported ==
    (pc = "detected" /\ Range(DET_COLUMNS) \ Range(df.cols) # {}) =>
        /\ out.status \notin {"KeyError", "ValueError"}
        /\ out.status = "ok" => \A metric \in Range(METRICS) : \E o \in OutRows : o.metric = metric

(***************************************************************************)
(* The per-day quantities of generate_dataframe over a long date range:    *)
(* the response-time baseline and the category mix of the day (lines       *)
(* 92-96) and the response time drawn for a row of that day (lines         *)
(* 163-164).  cell holds these locals; the rows themselves are not kept.   *)
(***************************************************************************)
\* last day index of the long date range
MaxHorizon == 910
\* a category prior with classes of equal and of zero weight
TwoPeaks == <<50, 0, 0, 50, 0, 0>>
ConfigRange(start, base) ==
    [COUNTRIES |-> <<"Singapore">>,
     BASE_USERS |-> [Singapore |-> 0],
     START_DATE |-> start, END_DATE |-> start + MaxHorizon,
     BASE_CAT_P |-> base, SOURCE_MIX |-> SOURCE_MIX]
DayConfigs ==
    {ConfigRange(0, BASE_CAT_P), ConfigRange(0, TwoPeaks), ConfigRange(SURGE_END, BASE_CAT_P)}

\* the module-level BASE_CAT_P after a call of _adjust_category_mix: line 71
\* takes a copy and the boosts of lines 75 and 77 are applied to the copy
BaseCatPAfterAdjust(base, d) == base

InitDay ==
    /\ config \in DayConfigs
    /\ pc = "day"
    /\ day = 1
    /\ ci = 1
    /\ cell = NoCell
    /\ df = EmptyTable
    /\ problems = <<>>
    /\ rng = Seeded(FALSE, <<>>)
    /\ first = NoFirst
    /\ edits = 0
    /\ out = NoOutput
    /\ args = NoArgs
    /\ memo = NoMemo
    /\ an = NoOutput
    /\ gen = <<>>

\* lines 92-96: base_resp and cat_p of the day
DayStart ==
    /\ pc = "day"
    /\ cell' = [k |-> 0, base_resp |-> BaseResp(config, Today),
                cat_p |-> AdjustCategoryMix(config.BASE_CAT_P, Today)]
    /\ config' = [config EXCEPT !.BASE_CAT_P = BaseCatPAfterAdjust(@, Today)]
    /\ pc' = "response"
    /\ UNCHANGED <<day, ci, df, problems, rng, first, edits, out, args, memo, an, gen>>

\* lines 163-164: the response time of a row of the day, in tenths of an hour
DrawResponseTime ==
    /\ pc = "response"
    /\ \E draw \in UniformDraws(cell.base_resp - 400, cell.base_resp + 400) :
         cell' = [k |-> 0, base_resp |-> cell.base_resp, cat_p |-> cell.cat_p,
                  response_time |-> ResponseTime(draw)]
    /\ pc' = "row"
    /\ UNCHANGED <<config, day, ci, df, problems, rng, first, edits, out, args, memo, an, gen>>

\* line 92: the next day of the range
NextDay ==
    /\ pc = "row"
    /\ day < Len(Days(config))
    /\ day' = day + 1
    /\ cell' = NoCell
    /\ pc' = "day"
    /\ UNCHANGED <<config, ci, df, problems, rng, first, edits, out, args, memo, an, gen>>

NextDayLoop == DayStart \/ DrawResponseTime \/ NextDay

SpecDay == InitDay /\ [][NextDayLoop]_vars

(***************************************************************************)
(* The category mix of a day                                               *)
(***************************************************************************)
SurgeDays == SURGE_START..SURGE_END
MisinfoDays == MISINFO_EVENT_START..MISINFO_EVENT_END
\* the factor (in percent) a category's weight is multiplied by on day d
Boost(i, d) ==
    IF VIOLATION_CATEGORIES[i] = "spam" /\ d \in SurgeDays THEN 135
    ELSE IF VIOLATION_CATEGORIES[i] = "misinformation" /\ d \in MisinfoDays THEN 150
    ELSE 100
Boosted(base, d) == [i \in 1..NCAT |-> base[i] * Boost(i, d)]
\* the locals of the day have been computed
DayComputed == pc \in {"response", "row"}
\* the probability w[i] / s of the mix p equals x / y
ProbIs(p, i, x, y) == p.w[i] * y = x * p.s

C23_MixOfTheDay ==
    DayComputed =>
        LET p == cell.cat_p
            base == config.BASE_CAT_P
            d == Today
        IN  /\ Len(p.w) = NCAT
            /\ \A i \in 1..NCAT : p.w[i] >= 0
            /\ p.s > 0
            /\ SeqSum(p.w) = p.s
            /\ (d \notin SurgeDays \cup MisinfoDays) =>
                   \A i \in 1..NCAT : ProbIs(p, i, base[i], SeqSum(base))
            /\ \A i \in 1..NCAT : ProbIs(p, i, Boosted(base, d)[i], SeqSum(Boosted(base, d)))
            /\ \A i, j \in 1..NCAT :
                   (Boost(i, d) = 100 /\ Boost(j, d) = 100) => p.w[i] * base[j] = p.w[j] * base[i]
DayIndex == day - 1
\* a table with the one row whose response time is rt
ResponseRow(rt) ==
    [cols |-> <<"median_response_time_hours">>,
     data |-> <<[median_response_time_hours |-> rt]>>]

\* C24: the baseline of day index d is max(6, 24 - 0.02 d) hours, it is at
\* least 6 and the next day's baseline is not above it; the response time of
\* a row is within 4 hours, plus the rounding to one decimal, of the baseline
\* of its day and within [6, 36], and the validator's range check [0, 48]
\* accepts it.
C24_ResponseTimeNearBaseline ==
    /\ DayComputed =>
           /\ cell.base_resp = Max(600, 2400 - 2 * DayIndex)
           /\ cell.base_resp >= 600
           /\ day < Len(Days(config)) =>
                  BaseResp(config, Days(config)[day + 1]) <= cell.base_resp
    /\ pc = "row" =>
           /\ 10 * cell.response_time - cell.base_resp <= 405
           /\ cell.base_resp - 10 * cell.response_time <= 405
           /\ 60 <= cell.response_time /\ cell.response_time <= 360
           /\ ResponseFindings(ResponseRow(cell.response_time)) = <<>>
\* a row of a day on which the baseline is at its floor and the drawn
\* response time was clipped to 6 hours
C24_Witness ==
    /\ pc = "row"
    /\ DayIndex > 900
    /\ cell.base_resp = 600
    /\ cell.response_time = 60

(***************************************************************************)
(* Classes of probability 0 in the multinomial splits                      *)
(***************************************************************************)
\* the category split of the current cell has been drawn
SplitDrawn == pc = "cat"
\* the categories of the current cell whose source and enforcement splits
\* have been added to the totals
Processed == {k \in 1..NCAT : k < cell.k /\ cell.cat_counts[k] > 0}
\* class i of probs has probability 0
ZeroClass(probs, i) == probs[i] = 0
\* class i of probs has probability 0 and is not the last class, or one
\* other class holds all the mass of the vector
ZeroClassNeverDrawn(probs, i) ==
    /\ probs[i] = 0
    /\ i < Len(probs) \/ Cardinality({j \in DOMAIN probs : probs[j] > 0}) = 1
\* the row of the scenario: all reports in the first category and from users
FirstCategoryUserOnly(r) ==
    /\ r.reports_spam = r.reports
    /\ r.reports_harassment_hate = 0 /\ r.reports_nudity = 0
    /\ r.reports_misinformation = 0 /\ r.reports_child_safety = 0
    /\ r.reports_other = 0
    /\ r.reports_user = r.reports
    /\ r.reports_ai = 0 /\ r.reports_trusted = 0
Scenario ==
    (config.BASE_CAT_P = OneHot("spam") /\ config.SOURCE_MIX = USER_ONLY) =>
        /\ Generated => \A r \in Rows : FirstCategoryUserOnly(r)
        /\ pc = "checked" => problems = <<>>

\* C25 as stated: no class of probability 0 ever receives a count, in the
\* category split, the source splits and the enforcement-type splits, and
\* the scenario row is as described.
C25_Original ==
    /\ SplitDrawn =>
        /\ \A i \in 1..NCAT :
               ZeroClass(AdjustCategoryMix(config.BASE_CAT_P, Today).w, i)
                   => cell.cat_counts[i] = 0
        /\ \A i \in 1..3 :
               (\A k \in Processed :
                    ZeroClass(config.SOURCE_MIX[VIOLATION_CATEGORIES[k]], i))
                   => cell[COUNT_COLS_SRC[i]] = 0
        /\ \A i \in 1..4 :
               (\A k \in Processed : ZeroClass(ENF_MIX[VIOLATION_CATEGORIES[k]], i))
                   => cell[COUNT_COLS_ENF[i]] = 0
    /\ Scenario
\* C25: a class of probability 0 receives no count in a multinomial split
\* when it is not the last class of its vector or when a single class holds
\* all the mass; with category probabilities [1,0,0,0,0,0] and a source mix
\* of 100% user the generated row has all its reports in the first category
\* and from users, and run_checks returns the empty list.
C25_ZeroClassBeforeLastNeverDrawn ==
    /\ SplitDrawn =>
        /\ \A i \in 1..NCAT :
               ZeroClassNeverDrawn(AdjustCategoryMix(config.BASE_CAT_P, Today).w, i)
                   => cell.cat_counts[i] = 0
        /\ \A i \in 1..3 :
               (\A k \in Processed :
                    ZeroClassNeverDrawn(config.SOURCE_MIX[VIOLATION_CATEGORIES[k]], i))
                   => cell[COUNT_COLS_SRC[i]] = 0
        /\ \A i \in 1..4 :
               (\A k \in Processed :
                    ZeroClassNeverDrawn(ENF_MIX[VIOLATION_CATEGORIES[k]], i))
                   => cell[COUNT_COLS_ENF[i]] = 0
    /\ Scenario
\* the validated table of the scenario, its row with two reports or more
C25_Witness ==
    /\ pc = "checked"
    /\ config = ConfigFirstOnly
    /\ problems = <<>>
    /\ \E r \in Rows : r.reports >= 2 /\ FirstCategoryUserOnly(r)
\* enforcements of child_safety reports with the warning class (probability
\* 0, second of four) empty
C25_WitnessEnforcement ==
    /\ SplitDrawn
    /\ config = ConfigChild
    /\ cell.k > NCAT
    /\ cell.enforcements_total >= 2
    /\ cell.enf_warning = 0

(***************************************************************************)
(* Zero-sum probability vectors                                            *)
(***************************************************************************)
\* the category prior of the configuration sums to zero
ZeroSumPrior == SeqSum(config.BASE_CAT_P) = 0
\* generation has not yet computed a category mix, or has stopped with an
\* error
NoMixYetOrFailed == pc \in {"ready", "cell", "failed"}
\* what does hold: a zero-sum vector stops generation when the total to be
\* split is positive, and a failed generation leaves no table
ZeroSumFatalForPositiveTotal ==
    /\ (ZeroSumPrior /\ SplitDrawn) => cell.reports_total = 0
    /\ SplitDrawn =>
           \A k \in Processed : SeqSum(config.SOURCE_MIX[VIOLATION_CATEGORIES[k]]) > 0
    /\ pc = "failed" => df = EmptyTable
\* C21: a probability vector that sums to zero stops generation with an
\* error and no table is produced, whatever the total to be split (a total
\* of 0 included) and on every day: with a zero-sum category prior the
\* generator never gets past the category split of a cell, no category is
\* processed with a zero-sum source mix, and a failed run leaves no table.
C21_ZeroSumVectorIsFatal ==
    /\ ZeroSumPrior => NoMixYetOrFailed
    /\ SplitDrawn =>
           \A k \in Processed : SeqSum(config.SOURCE_MIX[VIOLATION_CATEGORIES[k]]) > 0
    /\ pc = "failed" => df = EmptyTable
\* a run with a zero-sum category prior that stopped with an error
C21_Failure == pc = "failed" /\ ZeroSumPrior
\* a validated table that was generated from a zero-sum category prior
C21_TableFromZeroSumPrior == pc = "checked" /\ ZeroSumPrior /\ df.data # <<>>

(***************************************************************************)
(* The rolling estimates behind a z-score                                  *)
(***************************************************************************)
\* the position of output row o in the series of its country
Pos(o) == 1 + Cardinality({i \in Index(df) : /\ df.data[i].country = o.country
                                             /\ df.data[i].date < o.date})
\* the series o belongs to, as the detector reads it
SeriesOf(o) == Series(df, CountryRows(df, o.country), o.metric)
\* roll_mean and roll_std (squared) at the point of o, lines 11 and 12
RollMeanAt(o) == RollMean(SeriesOf(o), Pos(o), args.window)
RollStdAt(o) == ReplaceZeroStd(RollVar(SeriesOf(o), Pos(o), args.window))

\* C22 as stated: at every point whose trailing window holds at least one
\* observation, the first point of a country included, the rolling mean and
\* the rolling standard deviation (even before zeros are replaced) are defined.
C22_Original ==
    Detected =>
        \A o \in OutRows :
            Cardinality(Observed(o, args.window)) >= 1 =>
                /\ RollMeanAt(o).k = "num"
                /\ RollVar(SeriesOf(o), Pos(o), args.window).k = "num"
\* C22: the rolling mean is defined exactly when the trailing window holds
\* at least one observation; the rolling standard deviation is defined
\* exactly when the window holds at least two observations that are not all
\* equal; at the first point of each country the standard deviation and the
\* z-score are missing and the point is not flagged.
C22_MeanFromOneStdFromTwo ==
    Detected =>
        \A o \in OutRows :
            LET n == Cardinality(Observed(o, args.window))
            IN  /\ RollMeanAt(o).k = "num" <=> n >= 1
                /\ RollStdAt(o).k = "num" <=> (n >= 2 /\ ~ZeroStd(o, args.window))
                /\ Pos(o) = 1 =>
                       /\ RollStdAt(o).k = "nan"
                       /\ o.zscore.k = "nan"
                       /\ ~o.anomaly
\* the first point of a country has a value, a mean and no standard
\* deviation, and the second point of the series has a z-score
C22_Witness ==
    /\ Detected
    /\ \E o, q \in OutRows :
         /\ Pos(o) = 1 /\ ~IsNaN(o.value)
         /\ RollMeanAt(o).k = "num" /\ RollStdAt(o).k = "nan"
         /\ q.country = o.country /\ q.metric = o.metric /\ Pos(q) = 2
         /\ q.zscore.k = "num"

(***************************************************************************)
(* The order of the detector's output                                      *)
(***************************************************************************)
\* the first row of the input table that belongs to country c
FirstRow(c) == CHOOSE i \in Index(df) :
                   /\ df.data[i].country = c
                   /\ \A j \in Index(df) : df.data[j].country = c => i <= j
\* the place of a metric in the processing order
MetricRank(metric) == IndexOf(METRICS, metric)
\* the pairs of output positions, the earlier one first
OutPairs == {pq \in (1..Len(out.data)) \X (1..Len(out.data)) : pq[1] < pq[2]}

\* C26 as stated: the output is grouped by metric in processing order (all
\* reports rows, then all share_misinformation rows, then share_child_safety,
\* then share_user), and within a metric the rows of a country are in
\* ascending date order.
C26_Original ==
    Detected =>
        \A pq \in OutPairs :
            LET o == out.data[pq[1]]
                q == out.data[pq[2]]
            IN  /\ MetricRank(o.metric) <= MetricRank(q.metric)
                /\ (o.metric = q.metric /\ o.country = q.country) => o.date <= q.date
\* C26: the output is grouped by country, in the order in which the
\* countries first appear in the input; within a country the rows are
\* grouped by metric in processing order (reports, share_misinformation,
\* share_child_safety, share_user); and within a country and a metric they
\* are in ascending date order.
C26_GroupedByCountryThenMetric ==
    Detected =>
        \A pq \in OutPairs :
            LET o == out.data[pq[1]]
                q == out.data[pq[2]]
            IN  /\ FirstRow(o.country) <= FirstRow(q.country)
                /\ o.country = q.country => MetricRank(o.metric) <= MetricRank(q.metric)
                /\ (o.metric = q.metric /\ o.country = q.country) => o.date <= q.date
\* the output for a table whose rows alternate between two countries: a
\* share_user row of the first country precedes a reports row of the second
C26_Witness ==
    /\ Detected
    /\ \E i, j, k \in Index(df) : i < j /\ j < k /\ df.data[i].country = df.data[k].country
                                  /\ df.data[i].country # df.data[j].country
    /\ \E pq \in OutPairs :
         /\ out.data[pq[1]].metric = "share_user"
         /\ out.data[pq[2]].metric = "reports"
         /\ out.data[pq[1]].country # out.data[pq[2]].country

(***************************************************************************)
(* ts_dashboard_app.py: the anomalies tab.  The interactive detector runs  *)
(* on the table of the current filters with the window and the threshold   *)
(* of the sidebar; the batch detector is then run on the same table with   *)
(* the same window and threshold.                                          *)
(***************************************************************************)
\* the columns of the table detect_z_anomalies returns (lines 201-208, 211)
DASH_COLUMNS == <<"date", "country", "metric", "value", "zscore", "anomaly">>
\* metrics_to_check, line 396
METRICS_TO_CHECK == <<"reports", "share_misinformation", "share_child_safety", "share_user">>
\* rolling_z(series, window), lines 187-190: mean and standard deviation
\* (squared) of the window that ends at i
RollingZ(series, i, window) ==
    [m |-> RollMean(series, i, window), s |-> ReplaceZeroStd(RollVar(series, i, window))]
\* lines 196-209: the rows of one country for metric_col
ZRows(t, c, metric_col, window, z) ==
    LET s == CountryRows(t, c)
        series == Series(t, s, metric_col)
    IN  [k \in 1..Len(s) |->
            LET roll == RollingZ(series, k, window)
                zscores == ZScore(series[k], roll.m, roll.s)
            IN  [date |-> t.data[s[k]].date, country |-> c, metric |-> metric_col,
                 value |-> series[k], zscore |-> zscores, anomaly |-> Exceeds(zscores, z)]]
\* lines 195-210 for the countries cs: the tables of the countries, concatenated
RECURSIVE ZCountries(_, _, _, _, _)
ZCountries(t, cs, metric_col, window, z) ==
    IF cs = <<>> THEN <<>>
    ELSE ZRows(t, Head(cs), metric_col, window, z)
             \o ZCountries(t, Tail(cs), metric_col, window, z)
\* detect_z_anomalies(df, metric_col, window, z), lines 192-211: the rows of
\* the returned table (none when the table has no column metric_col)
DetectZAnomalies(t, metric_col, window, z) ==
    IF metric_col \notin Range(t.cols) THEN <<>>
    ELSE ZCountries(t, Unique([i \in Index(t) |-> t.data[i].country]), metric_col, window, z)
\* lines 399-403: the tables of the metrics ms, concatenated
RECURSIVE TabParts(_, _, _, _)
TabParts(t, ms, window, z) ==
    IF ms = <<>> THEN <<>>
    ELSE DetectZAnomalies(t, Head(ms), window, z) \o TabParts(t, Tail(ms), window, z)
\* lines 389-403: what the tab computes for the table t
AnomaliesTab(t, window, z) ==
    LET cols == Range(t.cols)
    IN  IF t.data = <<>> THEN [status |-> "info", cols |-> <<>>, data |-> <<>>]   \* line 391
        ELSE IF "country" \notin cols THEN Raised("KeyError", "country")         \* line 195
        ELSE IF "date" \notin cols THEN Raised("KeyError", "date")               \* line 196
        ELSE [status |-> "ok", cols |-> DASH_COLUMNS,
              data |-> TabParts(t, METRICS_TO_CHECK, window, z)]

\* the (window, threshold) pairs of the sidebar (lines 242-243): windows 3
\* to 30, thresholds 1.0 to 4.0 in steps of 0.1
SliderArgs ==
    {DefaultArgs,
     [window |-> 7, threshold |-> 23],
     [window |-> 4, threshold |-> 15],
     [window |-> 3, threshold |-> 10],
     [window |-> 3, threshold |-> 12]}

\* the anomalies tab is drawn for the table and the sidebar values
ShowAnomalies ==
    /\ pc = "loaded"
    /\ \E a \in SliderArgs :
         /\ args' = a
         /\ an' = AnomaliesTab(df, a.window, a.threshold)
    /\ pc' = "shown"
    /\ UNCHANGED <<config, day, ci, cell, df, problems, rng, first, edits, out, memo, gen>>

\* detect_anomalies(df, window, threshold) with the window and the threshold
\* the tab was drawn with (save_anomalies, line 56)
DetectWithSliders ==
    /\ pc = "shown"
    /\ out' = DetectAnomalies(df, args.window, args.threshold)
    /\ pc' = "compared"
    /\ UNCHANGED <<config, day, ci, cell, df, problems, rng, first, edits, args, memo, an, gen>>

NextDash == AddRow \/ ShowAnomalies \/ DetectWithSliders

SpecDash == InitDet /\ [][NextDash]_vars

(***************************************************************************)
(* Bound of the z-score                                                    *)
(***************************************************************************)
\* the squared z-score of row o is at most (k - 1)^2 / k for the k observed
\* values of its window
WithinBound(o) ==
    o.zscore.k = "num" =>
        LET k == Cardinality(Observed(o, args.window))
        IN  o.zscore.num * k <= (k - 1) * (k - 1) * o.zscore.den
\* the squared z-score of row o is exactly (k - 1)^2 / k
AtBound(o) ==
    /\ o.zscore.k = "num"
    /\ LET k == Cardinality(Observed(o, args.window))
       IN  o.zscore.num * k = (k - 1) * (k - 1) * o.zscore.den
\* the threshold t and the window w of the latest call satisfy
\* t^2 * w >= (w - 1)^2
HighThreshold ==
    args.threshold * args.threshold * args.window
        >= (args.window - 1) * (args.window - 1) * THRESHOLD_UNIT * THRESHOLD_UNIT
\* the rows both detectors have computed
ComputedRows ==
    (IF an.status = "ok" THEN Range(an.data) ELSE {})
        \cup (IF pc = "compared" /\ out.status = "ok" THEN Range(out.data) ELSE {})
AllDetectorColumns == Range(DET_COLUMNS) \subseteq Range(df.cols)
\* what does hold: on a table with rows both detectors return the same rows
SameRowsForTablesWithRows ==
    (pc = "compared" /\ AllDetectorColumns /\ df.data # <<>>) =>
        /\ out.status = "ok"
        /\ an.status = "ok"
        /\ Range(out.data) = Range(an.data)
        /\ Len(out.data) = Len(an.data)
\* C30: on the same table with the four metric columns, with the same
\* window and threshold, the batch detector and the interactive detector
\* both return a table, and the two tables hold the same set of rows.
C30_BatchAndInteractiveAgree ==
    (pc = "compared" /\ AllDetectorColumns) =>
        /\ out.status = "ok"
        /\ an.status \in {"ok", "info"}
        /\ Range(out.data) = Range(an.data)
\* a table without rows: the tab shows a notice, the batch detector raises
C30_EmptyTableDiverges ==
    /\ pc = "compared"
    /\ AllDetectorColumns
    /\ df.data = <<>>
    /\ an.status = "info"
    /\ out.status = "ValueError"

(***************************************************************************)
(* add_rolling (kpis.py and ts_dashboard_app.py): rolling means per        *)
(* country.  A rolling mean is the exact fraction num / den.               *)
(***************************************************************************)
\* the country names in the order sort_values puts them
SORTED_COUNTRIES == <<"Indonesia", "Philippines", "Singapore", "Thailand", "Vietnam">>
\* f"{col}_roll{window}"
RollName(col, window) == col \o "_roll" \o ToString(window)
\* row i comes before row j in sort_values(["country", "date"]); rows with
\* the same country and date keep their order
SortsBefore(t, i, j) ==
    LET rank_i == IndexOf(SORTED_COUNTRIES, t.data[i].country)
        rank_j == IndexOf(SORTED_COUNTRIES, t.data[j].country)
    IN  \/ rank_i < rank_j
        \/ rank_i = rank_j /\ t.data[i].date < t.data[j].date
        \/ rank_i = rank_j /\ t.data[i].date = t.data[j].date /\ i <= j
\* df.sort_values(["country", "date"]) on the rows labelled I: the labels
RECURSIVE SortByCountryDate(_, _)
SortByCountryDate(t, I) ==
    IF I = {} THEN <<>>
    ELSE LET m == CHOOSE i \in I : \A j \in I : SortsBefore(t, i, j)
         IN  <<m>> \o SortByCountryDate(t, I \ {m})
\* faulty variant: one window over the rows of all countries
GroupOfAllRows(t, s, k) == s
\* groupby("country"): the labels of the group of the k-th row of s
GroupOf(t, s, k) == SelectSeq(s, LAMBDA i : t.data[i].country = t.data[s[k]].country)
\* the position of the k-th row of s in the sequence g of its group
PosInGroup(s, g, k) == IndexOf(g, s[k])
\* transform(lambda s: s.rolling(window, min_periods=1).mean()) at the k-th
\* row of s
RollValue(t, s, k, col, window) ==
    LET g == GroupOf(t, s, k)
    IN  RollMean(Series(t, g, col), PosInGroup(s, g, k), window)
\* the loop over cols for the k-th row of s: the new columns of the row
RECURSIVE RollFields(_, _, _, _, _)
RollFields(t, s, k, cols, window) ==
    IF cols = <<>> THEN <<>>
    ELSE (RollName(Head(cols), window) :> RollValue(t, s, k, Head(cols), window))
             @@ RollFields(t, s, k, Tail(cols), window)
\* the names of the new columns, in the order they are created
RollNames(cols, window) == [k \in 1..Len(cols) |-> RollName(cols[k], window)]
\* kpis.add_rolling(df, cols, window), lines 98-111: the returned table, or
\* the exception that leaves the function
AddRolling(t, cols, window) ==
    LET have == Range(t.cols)
        missing == SelectSeq(cols, LAMBDA c : c \notin have)
        s == SortByCountryDate(t, Index(t))
    IN  IF "country" \notin have THEN Raised("KeyError", "country")
        ELSE IF "date" \notin have THEN Raised("KeyError", "date")
        ELSE IF missing # <<>> THEN Raised("KeyError", Head(missing))
        ELSE [status |-> "ok",
              cols |-> t.cols \o RollNames(cols, window),
              data |-> [k \in 1..Len(s) |->
                           RollFields(t, s, k, cols, window) @@ t.data[s[k]]]]
\* the dashboard's add_rolling(df, cols, window), lines 96-103: an empty
\* table is returned as it is
AddRollingDashboard(t, cols, window) ==
    IF t.data = <<>> THEN [status |-> "ok", cols |-> t.cols, data |-> t.data]
    ELSE AddRolling(t, cols, window)

\* the column lists and the windows add_rolling is called with
RollCols == {<<"reports">>, <<"reports", "share_user">>, <<"share_misinformation">>}
RollWindows == {2, 7}

\* df_roll = add_rolling(df, cols, window) of kpis.py (main.py, line 40)
AddRollingKpis ==
    /\ pc = "loaded"
    /\ \E cols \in RollCols, w \in RollWindows :
         /\ args' = [window |-> w, threshold |-> 0, cols |-> cols, fn |-> "kpis"]
         /\ out' = AddRolling(df, cols, w)
    /\ pc' = "rolled"
    /\ UNCHANGED <<config, day, ci, cell, df, problems, rng, first, edits, memo, an, gen>>
\* df_f = add_rolling(df_f, trend_cols, window) of the dashboard (line 248)
AddRollingDash ==
    /\ pc = "loaded"
    /\ \E cols \in RollCols, w \in RollWindows :
         /\ args' = [window |-> w, threshold |-> 0, cols |-> cols, fn |-> "dashboard"]
         /\ out' = AddRollingDashboard(df, cols, w)
    /\ pc' = "rolled"
    /\ UNCHANGED <<config, day, ci, cell, df, problems, rng, first, edits, memo, an, gen>>

NextRoll == AddRow \/ AddRollingKpis \/ AddRollingDash

SpecRoll == InitDet /\ [][NextRoll]_vars

(***************************************************************************)
(* The table add_rolling returns                                           *)
(***************************************************************************)
\* add_rolling has returned for a table that holds the country, the date
\* and every requested column
Rolled ==
    /\ pc = "rolled"
    /\ {"country", "date"} \cup Range(args.cols) \subseteq Range(df.cols)
\* row o without the new columns
WithoutRoll(o) == [c \in Range(df.cols) |-> o[c]]
\* the value of col in row o, as a float
FloatValue(o, col) == IF col = "reports" THEN Num(o[col]) ELSE o[col]
\* the rows of the returned table that belong to the window of row k: row k
\* and at most window - 1 rows of the same country immediately before it
RollWindowOf(k) ==
    {j \in 1..k :
        /\ out.data[j].country = out.data[k].country
        /\ Cardinality({i \in (j + 1)..k : out.data[i].country = out.data[k].country})
               < args.window}
\* the new column of col in row k is the mean of the values of col in the
\* window of row k (missing when the window holds no value)
IsWindowMean(k, col) ==
    LET I == {j \in RollWindowOf(k) : ~IsNaN(FloatValue(out.data[j], col))}
        sum == SetSum(I, [j \in I |-> FloatValue(out.data[j], col).v])
        mean == out.data[k][RollName(col, args.window)]
    IN  IF I = {} THEN mean.k = "nan"
        ELSE mean.k = "num" /\ mean.num * Cardinality(I) = sum * mean.den
\* the returned table is sorted by (country, date); the date is strictly
\* ascending inside a country
SortedByCountryDate ==
    \A i, j \in 1..Len(out.data) :
        i < j =>
            LET a == out.data[i]
                b == out.data[j]
            IN  \/ IndexOf(SORTED_COUNTRIES, a.country) < IndexOf(SORTED_COUNTRIES, b.country)
                \/ a.country = b.country /\ a.date < b.date
\* the returned table holds the rows of the input with their values
SameRows ==
    /\ Len(out.data) = Len(df.data)
    /\ {WithoutRoll(out.data[k]) : k \in 1..Len(out.data)} = Range(df.data)
\* the returned table is the sorted input with one new column per requested
\* column that holds the rolling mean
RollingAdded ==
    /\ out.status = "ok"
    /\ out.cols = df.cols \o RollNames(args.cols, args.window)
    /\ SameRows
    /\ SortedByCountryDate
    /\ \A k \in 1..Len(out.data) : \A c \in Range(args.cols) : IsWindowMean(k, c)
\* C27 as stated: both versions of add_rolling return the sorted table with
\* the new rolling-mean columns.
C27_Original == Rolled => RollingAdded
\* C27: add_rolling returns the table sorted by (country, date) with, for
\* every requested column col, a new column col_roll<window> that holds the
\* mean of col over the row and at most window-1 rows of the same country
\* immediately before it, and the input table is not changed; the
\* dashboard's version returns a table without rows as it is, without new
\* columns.
C27_RollingMeanPerCountry ==
    /\ [](/\ (Rolled /\ (args.fn = "kpis" \/ df.data # <<>>)) => RollingAdded
          /\ (Rolled /\ args.fn = "dashboard" /\ df.data = <<>>) =>
                 out = [status |-> "ok", cols |-> df.cols, data |-> <<>>])
    /\ [][pc' = "rolled" => df' = df]_vars
\* add_rolling returned for a table stored with the rows of two countries
\* in turn and a window shorter than the series of a country
C27_Witness ==
    /\ Rolled
    /\ out.status = "ok"
    /\ Len(args.cols) = 2
    /\ \E i, j \in Index(df) : i < j /\ SortsBefore(df, j, i) /\ i # j
    /\ \E k \in 1..Len(out.data) :
         /\ Cardinality(RollWindowOf(k)) = args.window
         /\ \E j \in 1..k : out.data[j].country = out.data[k].country /\ j \notin RollWindowOf(k)
         /\ \E j \in 1..k : out.data[j].country # out.data[k].country
\* the dashboard's add_rolling returned for a table without rows
C27_EmptyTableReturnedAsItIs ==
    /\ Rolled
    /\ args.fn = "dashboard"
    /\ df.data = <<>>
    /\ out.cols = df.cols

(***************************************************************************)
(* simulate_ab.simulate_cases, called twice in one process with the same   *)
(* configuration.  Scores are in percent, priorities in hundredths,        *)
(* probabilities in thousandths, times in seconds after ts_triage.         *)
(***************************************************************************)
SIM_COLUMNS ==
    <<"case_id", "arm", "country", "category", "ai_score", "true_violation",
      "priority_score", "threshold_used", "queued", "enforced", "appeal_success",
      "ts_triage", "ts_enqueued">>
\* config.py of the simulation: thresholds, weights and cutoff
THRESHOLD_A == 70
THRESHOLD_B == 60
WEIGHTS_A == [hate |-> 25, spam |-> 10]
WEIGHTS_B == [hate |-> 32, spam |-> 10]
W_AI == 60
PRIORITY_CUTOFF == 50
ENFORCE_STRENGTH == [hate |-> 200, spam |-> 0]
APPEAL_SUCCESS_BASE == [hate |-> 50, spam |-> 150]
\* SimConfig(seed, n_cases)
SimConfig(seed, n) == [seed |-> seed, n_cases |-> n]
SimConfigs == {SimConfig(7, 1), SimConfig(8, 2)}
\* the categories and scores the seeded draws take in the runs followed
SimCategories == {"hate", "spam"}
AiScores == {65, 80}
\* the whole seconds an exponential draw is truncated to
LatencyDraws == {3600, 7200}
\* np.datetime64("NaT")
NaT == [k |-> "nat", v |-> 0]
\* the global random state of a process that never seeds it
Unseeded == [seed |-> -1, pos |-> 0, start |-> 0, tape |-> <<>>, traced |-> FALSE]

\* rng.binomial(1, p) for p in thousandths
BinomialOutcomes(p) == IF p <= 0 THEN {0} ELSE IF p >= 1000 THEN {1} ELSE {0, 1}
\* lines 85-95: priority, threshold and queue decision of a case with the
\* seeded draws d
Weights(d) == IF d.arm = "A" THEN WEIGHTS_A ELSE WEIGHTS_B
Priority(d) == 100 * Weights(d)[d.category] + W_AI * d.ai_score
ThresholdUsed(d) == IF d.arm = "A" THEN THRESHOLD_A ELSE THRESHOLD_B
Queued(d) ==
    IF d.ai_score >= ThresholdUsed(d) /\ Priority(d) >= 100 * PRIORITY_CUTOFF THEN 1 ELSE 0
\* line 118: np.clip(0.3*ai + 0.5*true_violation + base_strength, 0, 0.99)
EnforceProb(d) ==
    Clip(3 * d.ai_score + 500 * d.true_violation + ENFORCE_STRENGTH[d.category], 0, 990)
\* lines 128-130: np.clip(base_app + 0.05*borderline, 0, 0.9)
AppealProb(d) ==
    Clip(APPEAL_SUCCESS_BASE[d.category]
             + (IF d.ai_score - ThresholdUsed(d) < 8 THEN 50 ELSE 0), 0, 900)
\* what default_rng(cfg.seed) can yield for one case (lines 52-73, 119,
\* 131): the enforcement is drawn for a queued case only, the appeal for an
\* enforced one only
CaseDraws ==
    {d \in [country : {"SG"}, category : SimCategories, ai_score : AiScores,
            true_violation : {0, 1}, arm : {"A", "B"}, enforce : {0, 1}, appeal : {0, 1}] :
        /\ d.enforce \in (IF Queued(d) = 1 THEN BinomialOutcomes(EnforceProb(d)) ELSE {0})
        /\ d.appeal \in (IF d.enforce = 1 THEN BinomialOutcomes(AppealProb(d)) ELSE {0})}
\* lines 100-151: the row of case i; exp_A and exp_B are the two arrays
\* drawn by np.random.exponential
SimRow(i, d, exp_A, exp_B) ==
    LET lat_sec == IF d.arm = "A" THEN exp_A[i] ELSE exp_B[i]
        enforced == IF Queued(d) = 1 THEN d.enforce ELSE 0
    IN  [case_id |-> i, arm |-> d.arm, country |-> d.country, category |-> d.category,
         ai_score |-> d.ai_score, true_violation |-> d.true_violation,
         priority_score |-> Priority(d), threshold_used |-> ThresholdUsed(d),
         queued |-> Queued(d), enforced |-> enforced,
         appeal_success |-> IF enforced = 1 THEN d.appeal ELSE 0,
         ts_triage |-> 0,
         ts_enqueued |-> IF Queued(d) = 1 THEN Num(lat_sec) ELSE NaT]
\* lines 136-151: the returned table
SimTable(draws, exp_A, exp_B) ==
    [cols |-> SIM_COLUMNS,
     data |-> [i \in 1..Len(draws) |-> SimRow(i, draws[i], exp_A, exp_B)]]

InitSim ==
    /\ config \in SimConfigs
    /\ pc = "ready"
    /\ day = 1
    /\ ci = 1
    /\ cell = NoCell
    /\ df = EmptyTable
    /\ problems = <<>>
    /\ rng = Unseeded
    /\ first = NoFirst
    /\ edits = 0
    /\ out = NoOutput
    /\ args = NoArgs
    /\ memo = NoMemo
    /\ an = NoOutput
    /\ gen = <<>>

\* df = simulate_cases(cfg), lines 45-151: the generator made from cfg.seed
\* yields the stream it yielded before; the latencies come from np.random
SimulateCases ==
    /\ pc = "ready"
    /\ \E draws \in (IF gen = <<>> THEN [1..config.n_cases -> CaseDraws] ELSE {gen}),
          exp_A, exp_B \in [1..config.n_cases -> LatencyDraws] :
         /\ gen' = draws
         /\ df' = SimTable(draws, exp_A, exp_B)
    /\ rng' = [rng EXCEPT !.pos = @ + 2 * config.n_cases]
    /\ pc' = "simulated"
    /\ UNCHANGED <<config, day, ci, cell, problems, first, edits, out, args, memo, an>>
\* the caller keeps the table and calls simulate_cases(cfg) again
CallAgain ==
    /\ pc = "simulated"
    /\ ~first.done
    /\ first' = [cols |-> df.cols, data |-> df.data, start |-> rng.start, done |-> TRUE]
    /\ pc' = "ready"
    /\ UNCHANGED <<config, day, ci, cell, df, problems, rng, edits, out, args, memo, an, gen>>
\* other code of the process draws a number from np.random before or
\* between the calls (one such draw is followed)
GlobalDraw ==
    /\ pc = "ready"
    /\ rng.pos % 2 = 0
    /\ rng' = [rng EXCEPT !.pos = @ + 1]
    /\ UNCHANGED <<config, pc, day, ci, cell, df, problems, first, edits, out, args, memo, an, gen>>

NextSim == SimulateCases \/ CallAgain \/ GlobalDraw

SpecSim == InitSim /\ [][NextSim]_vars

(***************************************************************************)
(* Two calls with one seed                                                 *)
(***************************************************************************)
\* both calls of simulate_cases have returned
BothSimulated == pc = "simulated" /\ first.done
\* row r without its enqueue time
WithoutEnqueueTime(r) == [c \in (DOMAIN r) \ {"ts_enqueued"} |-> r[c]]
\* what does hold: the two tables agree in every column but ts_enqueued,
\* and in ts_enqueued for the cases that were not queued
SeededColumnsAgree ==
    BothSimulated =>
        /\ df.cols = first.cols
        /\ Len(df.data) = Len(first.data)
        /\ \A i \in 1..Len(df.data) :
             /\ WithoutEnqueueTime(df.data[i]) = WithoutEnqueueTime(first.data[i])
             /\ df.data[i].queued = 0 => df.data[i].ts_enqueued = first.data[i].ts_enqueued
\* C28: two calls of simulate_cases with the same configuration return
\* identical tables in every column, ts_enqueued included, whatever was
\* drawn from the global random state before or between the calls.
C28_SameSeedSameTable == BothSimulated => (df.cols = first.cols /\ df.data = first.data)
\* two calls with one configuration whose tables differ in the enqueue time
\* of a queued case, with a draw of other code between the calls or without
C28_EnqueueTimesDiffer ==
    /\ BothSimulated
    /\ \E i \in 1..Len(df.data) :
         /\ df.data[i].queued = 1
         /\ df.data[i].ts_enqueued # first.data[i].ts_enqueued
         /\ WithoutEnqueueTime(df.data[i]) = WithoutEnqueueTime(first.data[i])
    /\ rng.pos = 4 * config.n_cases

====
